---- MODULE Spec2Model ----
(***************************************************************************)
(* Radar / satellite alignment pipeline of the meteo repository.           *)
(*                                                                         *)
(* An image is a record [width, height, px] whose px maps a position       *)
(* <<x, y>> (0-based, as PIL's getpixel) to an RGBA tuple <<r, g, b, a>>.  *)
(* A raw frame has the real size of an AEMET frame (480 x 530); it is      *)
(* described by a fill colour and a few spots, and the working images of   *)
(* clean_radar_image are evaluated from it on demand and recorded at the   *)
(* observed positions.                                                     *)
(***************************************************************************)
EXTENDS Integers, Sequences, FiniteSets, TLC

VARIABLES
    script,       \* which script's code runs: "georeference" or "listener"
    frame,        \* clean_radar_image: the raw frame at input_path
    steps_done,   \* clean_radar_image: the cleaning steps run so far
    cleaned_img,  \* clean_radar_image: the copy whose header and logo are cleared
    radar_data,   \* clean_radar_image: the cropped data area being cleaned
    cleaned_file, \* clean_radar_image: the image saved at the output path
    img,          \* interpolate_yellow_pixels: the image it is given
    result,       \* interpolate_yellow_pixels: the copy it returns
    again,        \* what a second call returns when given result
    reads,        \* positions handed to img.getpixel during the call
    ipc,          \* position of the interpolation driver
    gcp_file,     \* georeferencing: the temporary GeoTIFF that carries the GCPs
    georef_file,  \* georeferencing: the warped raster, or None
    warp_map,     \* georeferencing: source position under each output pixel
    gpc,          \* georeferencing: position in the function
    radar_ds,     \* extent: the georeferenced radar dataset
    transform,    \* extent: the radar-to-satellite coordinate transformation
    extent,       \* extent: the dictionary returned, or None
    proj_win,     \* subset: the window asked of gdal.Translate, or None
    subset_file,  \* subset: the window of the subset written, or None
    epc,          \* extent and subset: position in the two functions
    metadata,     \* bands: the subset's metadata, calibration key -> text
    raw,          \* bands: the subset's raw counts, band number -> values
    calibrated,   \* bands: the values written to each temp band file
    output_files, \* bands: the list the function returns
    bands_done,   \* bands: the band numbers the loop has gone through
    temp_files,   \* bands: the temp band files that exist
    bpc,          \* bands: position in the function
    water_vapor,  \* composite: the water vapour bands loaded and their grey
    vectors,      \* composite: the keys of the vector data loaded
    prov_bounds,  \* composite: total_bounds of the provinces, EPSG:3857
    radar_info,   \* composite: the bounds of the radar raster
    radar_layer,  \* composite: the radar raster read from the GeoTIFF
    drawn,        \* composite: the artists added to the axes, in call order
    extent_bounds, \* composite: the extent computed for the figure
    view,         \* composite: the x and y limits set on the axes
    out_px,       \* composite: the saved figure at the radar's pixels
    cpc,          \* composite: the steps of create_enhanced_image run
    wv_bounds,    \* composite: the bounds of the water vapour raster
    placed,       \* composite: the extent= given to imshow for each raster
    batch,        \* main: the files the loop goes through
    frame_no,     \* main: index in batch of the file being processed
    attempted,    \* main: the indices of the files the loop has started
    kpc,          \* main: "loop", "done", or "aborted" by an exception
    stages_run,   \* one file: the stages run for it so far
    failed,       \* one file: the stages that failed for it
    artefacts,    \* the intermediate files on disk, <<file index, kind>>
    water_vapor_files, \* one file: the list extract_water_vapor returned
    returned,     \* one file: "running", "success", "failure" or "raised"
    ppc,          \* one file: the stage that comes next
    objects,      \* scan: the pixel data of the image objects, by identity
    result_obj,   \* scan: the object the local name result is bound to
    scan_at,      \* scan: how many positions the two for loops have visited
    spc,          \* scan: position in interpolate_yellow_pixels
    lock_file,    \* lock: the content of enhanced_weather.lock
    lpc,          \* lock: where each listener process is in main
    lock_data,    \* lock: what each process got from json.load
    acquired,     \* lock: the processes whose check_and_create_lock gave True
    remove_calls, \* lock: the processes that have called remove_lock
    today,        \* poll: the date datetime.now() gives
    radar_dir,    \* poll: the radar files in data/, as <<date, time>>
    enhanced_dir, \* poll: the timestamps that have an enhanced_weather png
    unprocessed,  \* poll: the list get_unprocessed_files returned
    file_no,      \* poll: how many files of the list the for loop has taken
    results,      \* poll: what process_radar_file last returned for a frame
    qpc,          \* poll: where the listener's main loop is
    now,          \* radar listener: datetime.now(), in minutes of the day
    last_image,   \* radar listener: time of today's last radar file, or -1
    wait_time,    \* radar listener: what calculate_wait_time returned
    calls,        \* radar listener: how many times download_radar was called
    rpc,          \* radar listener: where its main loop is
    temp_band,    \* parallel: whose band data each temp_band file holds, 0: none
    band_out,     \* parallel: whose band data each output file holds, 0: none
    touched,      \* parallel: the temp files each instance has read or written
    wpc           \* parallel: the band and the statement each instance is at

vars == <<script, frame, steps_done, cleaned_img, radar_data, cleaned_file,
          img, result, again, reads, ipc,
          gcp_file, georef_file, warp_map, gpc,
          radar_ds, transform, extent, proj_win, subset_file, epc,
          metadata, raw, calibrated, output_files, bands_done, temp_files,
          bpc,
          water_vapor, vectors, prov_bounds, radar_info, radar_layer, drawn,
          extent_bounds, view, out_px, cpc, wv_bounds, placed,
          batch, frame_no, attempted, kpc,
          stages_run, failed, artefacts, water_vapor_files, returned, ppc,
          objects, result_obj, scan_at, spc,
          lock_file, lpc, lock_data, acquired, remove_calls,
          today, radar_dir, enhanced_dir, unprocessed, file_no, results, qpc,
          now, last_image, wait_time, calls, rpc,
          temp_band, band_out, touched, wpc>>

clean_vars == <<frame, steps_done, cleaned_img, radar_data, cleaned_file>>

interp_vars == <<img, result, again, reads, ipc>>

georef_vars == <<gcp_file, georef_file, warp_map, gpc>>

extent_vars == <<radar_ds, transform, extent, proj_win, subset_file, epc>>

bands_vars == <<metadata, raw, calibrated, output_files, bands_done,
                temp_files, bpc>>

\* The radar side of the pipeline, and what follows it.
upstream_vars == <<clean_vars, interp_vars, georef_vars, extent_vars>>

compose_vars == <<water_vapor, vectors, prov_bounds, radar_info, radar_layer,
                  drawn, extent_bounds, view, out_px, cpc, wv_bounds, placed>>

pipeline_vars == <<batch, frame_no, attempted, kpc,
                   stages_run, failed, artefacts, water_vapor_files,
                   returned, ppc>>

scan_vars == <<objects, result_obj, scan_at, spc>>

\* The statement-level and process-level models.
lock_vars == <<lock_file, lpc, lock_data, acquired, remove_calls>>

poll_vars == <<today, radar_dir, enhanced_dir, unprocessed, file_no, results,
               qpc>>

radar_vars == <<now, last_image, wait_time, calls, rpc>>

parallel_vars == <<temp_band, band_out, touched, wpc>>

runtime_vars == <<scan_vars, lock_vars, poll_vars, radar_vars, parallel_vars>>

downstream_vars == <<bands_vars, compose_vars, pipeline_vars, runtime_vars>>

\* Everything but the script that runs and the runtime models.
staged_vars == <<upstream_vars, bands_vars, compose_vars, pipeline_vars>>

\* Python's None, where a file, a dataset or a result is absent.
None == [none |-> TRUE]

\* No source pixel lies under an output pixel of the warp.
Outside == <<-1, -1>>

Scripts == {"georeference", "listener"}

----------------------------------------------------------------------------
(* Bounds of the model *)

MaxArea == 6     \* most pixels of an image given to interpolate_yellow_pixels

MaxFrames == 2   \* most files in the list a main loop goes through

MaxCalls == 3    \* most calls of download_radar followed in one run

----------------------------------------------------------------------------
(* Pixels and images *)

TRANSPARENT == <<0, 0, 0, 0>>

Abs(n) == IF n < 0 THEN -n ELSE n

Min(a, b) == IF a < b THEN a ELSE b

Max(a, b) == IF a > b THEN a ELSE b

Positions(w, h) == (0..(w - 1)) \X (0..(h - 1))

NoImage == [width |-> 0, height |-> 0, px |-> <<>>]

NoFrame == [width |-> 0, height |-> 0, mode |-> "none", anchor |-> <<0, 0>>,
            fill |-> <<>>, spots |-> <<>>]

\* clean_radar_image is not called.
CleanIdle ==
    /\ frame = NoFrame
    /\ steps_done = <<>>
    /\ cleaned_img = NoImage
    /\ radar_data = NoImage
    /\ cleaned_file = NoImage

\* interpolate_yellow_pixels is not called on its own.
InterpIdle ==
    /\ img = NoImage /\ result = NoImage /\ again = NoImage
    /\ reads = {} /\ ipc = "idle"

\* The georeferencing function is not called.
GeorefIdle ==
    /\ gcp_file = None /\ georef_file = None
    /\ warp_map = <<>> /\ gpc = "idle"

\* get_radar_extent_for_geostationary is not called.
ExtentIdle ==
    /\ radar_ds = None /\ transform = None
    /\ extent = None /\ proj_win = None /\ subset_file = None
    /\ epc = "idle"

\* The band extraction is not called.
BandsIdle ==
    /\ metadata = None /\ raw = None /\ calibrated = None
    /\ output_files = <<>> /\ bands_done = <<>>
    /\ temp_files = {} /\ bpc = "idle"

UpstreamIdle == CleanIdle /\ InterpIdle /\ GeorefIdle /\ ExtentIdle

\* create_enhanced_image is not called.
ComposeIdle ==
    /\ water_vapor = None /\ vectors = {} /\ prov_bounds = None
    /\ radar_info = None /\ radar_layer = NoImage /\ drawn = <<>>
    /\ extent_bounds = None /\ view = None /\ out_px = None
    /\ cpc = <<>> /\ wv_bounds = None /\ placed = {}

\* No main loop runs.
PipelineIdle ==
    /\ batch = <<>> /\ frame_no = 0 /\ attempted = <<>> /\ kpc = "idle"
    /\ stages_run = <<>> /\ failed = {} /\ artefacts = {}
    /\ water_vapor_files = <<>> /\ returned = "idle" /\ ppc = "idle"

\* interpolate_yellow_pixels is not followed statement by statement.
ScanIdle ==
    /\ objects = [arg |-> NoImage, copy |-> NoImage]
    /\ result_obj = "none"
    /\ scan_at = 0
    /\ spc = "idle"

\* The two listener processes of the lock model, by PID.
Instances == {1, 2}

\* The lock file does not exist.
Absent == [state |-> "absent", pid |-> 0]

\* Nothing read from the lock file yet.
Unread == [got |-> "nothing", pid |-> 0]

\* No listener process is started.
LockIdle ==
    /\ lock_file = Absent
    /\ lpc = [i \in Instances |-> "idle"]
    /\ lock_data = [i \in Instances |-> Unread]
    /\ acquired = {}
    /\ remove_calls = {}

\* The listener's main loop does not run.
PollIdle ==
    /\ today = 0 /\ radar_dir = {} /\ enhanced_dir = {}
    /\ unprocessed = <<>> /\ file_no = 0 /\ results = <<>>
    /\ qpc = "idle"

\* The radar listener does not run.
RadarIdle ==
    /\ now = 0 /\ last_image = -1 /\ wait_time = 0 /\ calls = 0
    /\ rpc = "idle"

\* No two pipeline instances run side by side.
ParallelIdle ==
    /\ temp_band = <<>> /\ band_out = <<>> /\ touched = <<>> /\ wpc = <<>>

RuntimeIdle == ScanIdle /\ LockIdle /\ PollIdle /\ RadarIdle /\ ParallelIdle

DownstreamIdle == BandsIdle /\ ComposeIdle /\ PipelineIdle /\ RuntimeIdle

StagedIdle == UpstreamIdle /\ BandsIdle /\ ComposeIdle /\ PipelineIdle

\* Colours given to interpolate_yellow_pixels on the small images.
Yellow   == <<100, 100, 0, 255>>
Red      == <<255, 0, 0, 255>>
Green    == <<0, 200, 0, 128>>

\* Colours on the edge of the marker classification.
Yellow81 == <<81, 81, 49, 255>>      \* darkest marker colour
Dark80   == <<80, 81, 49, 255>>      \* r = 80: not a marker
Blue50   == <<81, 81, 50, 255>>      \* b = 50: not a marker
Skew29   == <<110, 81, 0, 255>>      \* |r-g| = 29: marker
Skew30   == <<111, 81, 0, 255>>      \* |r-g| = 30: not a marker

Palette == {Yellow, Red, Green}

EdgePalette == {Yellow81, Dark80, Blue50, Skew29, Skew30, TRANSPARENT}

ImagesOver(w, h, colours) ==
    {[width |-> w, height |-> h, px |-> f] : f \in [Positions(w, h) -> colours]}

\* The widths and heights of the images of at most MaxArea pixels.
Shapes == {wh \in (1..MaxArea) \X (1..MaxArea) : wh[1] * wh[2] <= MaxArea}

\* The images interpolate_yellow_pixels is tried on: every image of at most
\* MaxArea pixels over Palette, and every 2 x 1 and 1 x 2 image over
\* EdgePalette.
InterpInputs ==
    (UNION {ImagesOver(wh[1], wh[2], Palette) : wh \in Shapes})
        \cup ImagesOver(2, 1, EdgePalette) \cup ImagesOver(1, 2, EdgePalette)

----------------------------------------------------------------------------
(* interpolate_yellow_pixels *)

\* A classification that forgets the abs(r-g) < 30 test.
is_yellow_no_skew(pixel) ==
    /\ pixel[1] > 80
    /\ pixel[2] > 80
    /\ pixel[3] < 50

\* r > 80 and g > 80 and b < 50 and abs(r-g) < 30
is_yellow(pixel) ==
    /\ pixel[1] > 80
    /\ pixel[2] > 80
    /\ pixel[3] < 50
    /\ Abs(pixel[1] - pixel[2]) < 30

\* for dy in [-1, 0, 1]: for dx in [-1, 0, 1]: skip dx == 0 and dy == 0
Offsets == << <<-1, -1>>, <<0, -1>>, <<1, -1>>,
              <<-1, 0>>,             <<1, 0>>,
              <<-1, 1>>,  <<0, 1>>,  <<1, 1>> >>

\* 0 <= nx < width and 0 <= ny < height
in_bounds(image, nx, ny) ==
    /\ 0 <= nx /\ nx < image.width
    /\ 0 <= ny /\ ny < image.height

\* The positions (nx, ny) around (x, y) that pass the bounds test, in scan
\* order: these are the ones img.getpixel is called on.
candidates(image, x, y) ==
    LET at(i) == <<x + Offsets[i][1], y + Offsets[i][2]>>
        all   == [i \in 1..8 |-> at(i)]
        ok(q) == in_bounds(image, q[1], q[2])
    IN  SelectSeq(all, ok)

\* The list `neighbors`: the candidates that are not themselves yellow.
neighbors(image, x, y) ==
    LET cand    == candidates(image, x, y)
        got     == [i \in 1..Len(cand) |-> image.px[cand[i]]]
        keep(p) == ~is_yellow(p)
    IN  SelectSeq(got, keep)

RECURSIVE sum_channel(_, _)
sum_channel(pixels, c) ==
    IF pixels = <<>> THEN 0
    ELSE Head(pixels)[c] + sum_channel(Tail(pixels), c)

\* An average that divides by the 8 candidate neighbours.
average_of_eight(pixels) ==
    [c \in 1..4 |-> sum_channel(pixels, c) \div 8]

\* sum(p[c] for p in neighbors) // len(neighbors), for r, g, b and a
average(pixels) ==
    [c \in 1..4 |-> sum_channel(pixels, c) \div Len(pixels)]

\* A scan that has no else branch for an empty neighbour list.
interpolated_pixel_no_else(image, x, y) ==
    LET pixel == image.px[<<x, y>>]
        nbrs  == neighbors(image, x, y)
    IN  IF is_yellow(pixel) /\ nbrs # <<>> THEN average(nbrs) ELSE pixel

\* The value result holds at (x, y) when the scan is over.
interpolated_pixel(image, x, y) ==
    LET pixel == image.px[<<x, y>>]
        nbrs  == neighbors(image, x, y)
    IN  IF is_yellow(pixel)
        THEN IF nbrs # <<>> THEN average(nbrs) ELSE TRANSPARENT
        ELSE pixel

interpolate_yellow_pixels(image) ==
    [width  |-> image.width,
     height |-> image.height,
     px     |-> [p \in Positions(image.width, image.height) |->
                    interpolated_pixel(image, p[1], p[2])]]

\* Every position the call passes to img.getpixel.
getpixel_reads(image) ==
    Positions(image.width, image.height)
        \cup UNION {{candidates(image, p[1], p[2])[i] :
                        i \in 1..Len(candidates(image, p[1], p[2]))} :
                    p \in {q \in Positions(image.width, image.height) :
                              is_yellow(image.px[q])}}

----------------------------------------------------------------------------
(* interpolate_yellow_pixels of 9_enhanced_weather_listener.py *)

is_yellow_listener(pixel) ==
    /\ pixel[1] > 80
    /\ pixel[2] > 80
    /\ pixel[3] < 50
    /\ Abs(pixel[1] - pixel[2]) < 30

neighbors_listener(image, x, y) ==
    LET cand    == candidates(image, x, y)
        got     == [i \in 1..Len(cand) |-> image.px[cand[i]]]
        keep(p) == ~is_yellow_listener(p)
    IN  SelectSeq(got, keep)

average_listener(pixels) ==
    [c \in 1..4 |-> sum_channel(pixels, c) \div Len(pixels)]

interpolated_pixel_listener(image, x, y) ==
    LET pixel == image.px[<<x, y>>]
        nbrs  == neighbors_listener(image, x, y)
    IN  IF is_yellow_listener(pixel)
        THEN IF nbrs # <<>> THEN average_listener(nbrs) ELSE TRANSPARENT
        ELSE pixel

interpolate_yellow_pixels_listener(image) ==
    [width  |-> image.width,
     height |-> image.height,
     px     |-> [p \in Positions(image.width, image.height) |->
                    interpolated_pixel_listener(image, p[1], p[2])]]

getpixel_reads_listener(image) ==
    Positions(image.width, image.height)
        \cup UNION {{candidates(image, p[1], p[2])[i] :
                        i \in 1..Len(candidates(image, p[1], p[2]))} :
                    p \in {q \in Positions(image.width, image.height) :
                              is_yellow_listener(image.px[q])}}

\* The function of that name in the script that runs.
interpolate_of(s, image) ==
    IF s = "georeference" THEN interpolate_yellow_pixels(image)
    ELSE interpolate_yellow_pixels_listener(image)

reads_of(s, image) ==
    IF s = "georeference" THEN getpixel_reads(image)
    ELSE getpixel_reads_listener(image)

----------------------------------------------------------------------------
(* clean_radar_image *)

FOOTER_HEIGHT == 50     \* footer_height = 50
HEADER_WIDTH  == 158    \* range(min(158, width))
HEADER_HEIGHT == 14     \* range(min(14, height))
LOGO_LEFT     == 392    \* range(392, min(480, width))
LOGO_RIGHT    == 480
LOGO_HEIGHT   == 46     \* range(min(46, height))

\* interpolate_yellow=True, the default every caller leaves in place
interpolate_yellow == TRUE

\* The colours a raw frame is drawn from.
Black    == <<0, 0, 0, 255>>
Grey127  == <<127, 127, 127, 255>>
NearGrey == <<127, 127, 126, 200>>
Echo     == <<0, 0, 252, 255>>       \* a precipitation colour

FillColours == {Black, Grey127, Echo}

SpotColours == {Yellow, Grey127, NearGrey, Echo, Skew30}

\* A frame holds its spots on an L of three pixels at its anchor.
SpotOffsets == {<<0, 0>>, <<1, 0>>, <<0, 1>>}

SpotsAt(a) == {<<a[1] + d[1], a[2] + d[2]>> : d \in SpotOffsets}

\* Frame sizes: the AEMET frame, and a frame narrower than the logo's right
\* edge.
FrameSizes == {<<480, 530>>, <<400, 300>>}

\* Where the spots sit: across the header's corner, across the logo's
\* corner, across the footer's first row, in the data area's last corner.
Anchors(w, h) ==
    {<<HEADER_WIDTH - 1, HEADER_HEIGHT - 1>>,
     <<LOGO_LEFT - 1, LOGO_HEIGHT - 1>>,
     <<200, h - FOOTER_HEIGHT - 1>>,
     <<w - 2, h - FOOTER_HEIGHT - 2>>}

Frames ==
    {[width |-> wh[1], height |-> wh[2], mode |-> m, anchor |-> a,
      fill |-> c, spots |-> sp] :
        wh \in FrameSizes, m \in {"RGB", "RGBA"}, c \in FillColours,
        a \in Anchors(480, 530) \cup Anchors(400, 300),
        sp \in UNION {[SpotsAt(b) -> SpotColours] :
                         b \in Anchors(480, 530) \cup Anchors(400, 300)}}

\* The frames that exist: the spots sit at the frame's own anchor.
RawFrames ==
    {f \in Frames : /\ f.anchor \in Anchors(f.width, f.height)
                    /\ DOMAIN f.spots = SpotsAt(f.anchor)}

\* The colour the decoded file holds at p: three channels in mode RGB.
raw_pixel(f, p) ==
    LET c == IF p \in DOMAIN f.spots THEN f.spots[p] ELSE f.fill
    IN  IF f.mode = "RGB" THEN SubSeq(c, 1, 3) ELSE c

\* Image.open(input_path)
Image_open(f) ==
    [width  |-> f.width,
     height |-> f.height,
     px     |-> [p \in Positions(f.width, f.height) |-> raw_pixel(f, p)]]

\* img.convert('RGBA'): an opaque alpha is added to a pixel that has none.
convert_RGBA(image) ==
    [width  |-> image.width,
     height |-> image.height,
     px     |-> [p \in Positions(image.width, image.height) |->
                    IF Len(image.px[p]) = 3 THEN image.px[p] \o <<255>>
                    ELSE image.px[p]]]

\* analyze_image_structure: footer_start = height - footer_height
analyze_image_structure(f) == f.height - FOOTER_HEIGHT

\* for x in range(min(158, width)): for y in range(min(14, height))
in_header(image, x, y) ==
    /\ 0 <= x /\ x < Min(HEADER_WIDTH, image.width)
    /\ 0 <= y /\ y < Min(HEADER_HEIGHT, image.height)

\* for x in range(392, min(480, width)): for y in range(min(46, height))
in_logo(image, x, y) ==
    /\ LOGO_LEFT <= x /\ x < Min(LOGO_RIGHT, image.width)
    /\ 0 <= y /\ y < Min(LOGO_HEIGHT, image.height)

\* cleaned_img.putpixel((x, y), (0, 0, 0, 0)) over the header rectangle
clear_header(image) ==
    [width  |-> image.width,
     height |-> image.height,
     px     |-> [p \in Positions(image.width, image.height) |->
                    IF in_header(image, p[1], p[2]) THEN TRANSPARENT
                    ELSE image.px[p]]]

\* cleaned_img.putpixel((x, y), (0, 0, 0, 0)) over the logo rectangle
clear_logo(image) ==
    [width  |-> image.width,
     height |-> image.height,
     px     |-> [p \in Positions(image.width, image.height) |->
                    IF in_logo(image, p[1], p[2]) THEN TRANSPARENT
                    ELSE image.px[p]]]

\* Image.crop((left, upper, right, lower))
crop(image, left, upper, right, lower) ==
    [width  |-> right - left,
     height |-> lower - upper,
     px     |-> [p \in Positions(right - left, lower - upper) |->
                    image.px[<<p[1] + left, p[2] + upper>>]]]

\* A crop that leaves the footer's first row in the data area.
crop_footer_short(image, f) ==
    crop(image, 0, 0, image.width, analyze_image_structure(f) + 1)

\* radar_data = cleaned_img.crop((0, 0, width, footer_boundary))
crop_footer(image, f) ==
    crop(image, 0, 0, image.width, analyze_image_structure(f))

\* A background test that forgets the blue channel of the grey.
background_pixel_no_blue(pixel) ==
    IF pixel[1] = 0 /\ pixel[2] = 0 /\ pixel[3] = 0 THEN TRANSPARENT
    ELSE IF pixel[1] = 127 /\ pixel[2] = 127 THEN TRANSPARENT
    ELSE pixel

\* The entry of new_data for one pixel of data.
background_pixel(pixel) ==
    IF pixel[1] = 0 /\ pixel[2] = 0 /\ pixel[3] = 0 THEN TRANSPARENT
    ELSE IF pixel[1] = 127 /\ pixel[2] = 127 /\ pixel[3] = 127
         THEN TRANSPARENT
    ELSE pixel

\* data = list(radar_data.getdata()) ... radar_data.putdata(new_data):
\* both run over the pixels in the same row-major order.
background_transparent(image) ==
    [width  |-> image.width,
     height |-> image.height,
     px     |-> [p \in Positions(image.width, image.height) |->
                    background_pixel(image.px[p])]]

----------------------------------------------------------------------------
(* clean_radar_image of 9_enhanced_weather_listener.py *)

in_header_listener(image, x, y) ==
    /\ 0 <= x /\ x < Min(158, image.width)
    /\ 0 <= y /\ y < Min(14, image.height)

\* A logo rectangle that stops one column short, at x = 478.
in_logo_listener_479(image, x, y) ==
    /\ 392 <= x /\ x < Min(479, image.width)
    /\ 0 <= y /\ y < Min(46, image.height)

in_logo_listener(image, x, y) ==
    /\ 392 <= x /\ x < Min(480, image.width)
    /\ 0 <= y /\ y < Min(46, image.height)

clear_header_listener(image) ==
    [width  |-> image.width,
     height |-> image.height,
     px     |-> [p \in Positions(image.width, image.height) |->
                    IF in_header_listener(image, p[1], p[2]) THEN TRANSPARENT
                    ELSE image.px[p]]]

clear_logo_listener(image) ==
    [width  |-> image.width,
     height |-> image.height,
     px     |-> [p \in Positions(image.width, image.height) |->
                    IF in_logo_listener(image, p[1], p[2]) THEN TRANSPARENT
                    ELSE image.px[p]]]

\* radar_data = cleaned_img.crop((0, 0, width, height - 50))
crop_footer_listener(image, f) ==
    crop(image, 0, 0, image.width, f.height - 50)

background_pixel_listener(pixel) ==
    IF pixel[1] = 0 /\ pixel[2] = 0 /\ pixel[3] = 0 THEN TRANSPARENT
    ELSE IF pixel[1] = 127 /\ pixel[2] = 127 /\ pixel[3] = 127
         THEN TRANSPARENT
    ELSE pixel

background_transparent_listener(image) ==
    [width  |-> image.width,
     height |-> image.height,
     px     |-> [p \in Positions(image.width, image.height) |->
                    background_pixel_listener(image.px[p])]]

----------------------------------------------------------------------------
(* The body of clean_radar_image, statement by statement *)

\* A body that interpolates before it crops.
clean_steps_crop_late ==
    <<"header", "logo", "interpolate", "crop", "background">>

\* The steps of 4_georeference.py's clean_radar_image, in the order of its
\* statements.
clean_steps == <<"header", "logo", "crop", "interpolate", "background">>

\* The steps of the listener's clean_radar_image, in the order of its
\* statements.
clean_steps_listener ==
    <<"header", "logo", "crop", "interpolate", "background">>

steps_of(s) ==
    IF s = "georeference" THEN clean_steps ELSE clean_steps_listener

\* What one step of 4_georeference.py makes of the image it is given.
apply_step(name, image, f) ==
    CASE name = "header"      -> clear_header(image)
      [] name = "logo"        -> clear_logo(image)
      [] name = "crop"        -> crop_footer(image, f)
      [] name = "interpolate" -> IF interpolate_yellow
                                 THEN interpolate_yellow_pixels(image)
                                 ELSE image
      [] name = "background"  -> background_transparent(image)

\* What one step of the listener makes of the image it is given.
apply_step_listener(name, image, f) ==
    CASE name = "header"      -> clear_header_listener(image)
      [] name = "logo"        -> clear_logo_listener(image)
      [] name = "crop"        -> crop_footer_listener(image, f)
      [] name = "interpolate" -> interpolate_yellow_pixels_listener(image)
      [] name = "background"  -> background_transparent_listener(image)

\* The whole working image once the steps `done` have run on frame f.
RECURSIVE work_image(_, _, _)
work_image(s, f, done) ==
    IF done = <<>> THEN convert_RGBA(Image_open(f))
    ELSE LET before == work_image(s, f, SubSeq(done, 1, Len(done) - 1))
             name   == done[Len(done)]
         IN  IF s = "georeference" THEN apply_step(name, before, f)
             ELSE apply_step_listener(name, before, f)

\* The positions at which the working image is recorded: around the
\* frame's spots, and at the corners of the frame and of its data area.
Observed(f) ==
    (((f.anchor[1] - 1)..(f.anchor[1] + 2))
        \X ((f.anchor[2] - 1)..(f.anchor[2] + 2)))
    \cup {<<0, 0>>, <<f.width - 1, 0>>,
          <<0, f.height - 51>>, <<f.width - 1, f.height - 51>>,
          <<0, f.height - 50>>, <<f.width - 1, f.height - 1>>}

Sample(image, f) ==
    [width  |-> image.width,
     height |-> image.height,
     px     |-> [p \in Observed(f) \cap Positions(image.width, image.height)
                    |-> image.px[p]]]

InitClean ==
    /\ script \in Scripts
    /\ frame \in RawFrames
    /\ steps_done = <<>>
    /\ cleaned_img = NoImage
    /\ radar_data = NoImage
    /\ cleaned_file = NoImage
    /\ InterpIdle
    /\ GeorefIdle
    /\ ExtentIdle
    /\ DownstreamIdle

\* with Image.open(input_path) as img: img = img.convert('RGBA');
\* cleaned_img = img.copy()
OpenFrame ==
    /\ frame # NoFrame
    /\ cleaned_img = NoImage
    /\ cleaned_img' = Sample(work_image(script, frame, <<>>), frame)
    /\ UNCHANGED <<script, frame, steps_done, radar_data, cleaned_file>>
    /\ UNCHANGED <<interp_vars, georef_vars, extent_vars>>
    /\ UNCHANGED downstream_vars

\* The next statement of the body, when it is the step `name`.
CleanStep(name) ==
    /\ cleaned_img # NoImage
    /\ cleaned_file = NoImage
    /\ Len(steps_done) < Len(steps_of(script))
    /\ name = steps_of(script)[Len(steps_done) + 1]
    /\ steps_done' = Append(steps_done, name)
    /\ LET out == Sample(work_image(script, frame, Append(steps_done, name)),
                         frame)
       IN  IF name \in {"header", "logo"}
           THEN cleaned_img' = out /\ UNCHANGED radar_data
           ELSE radar_data' = out /\ UNCHANGED cleaned_img
    /\ UNCHANGED <<script, frame, cleaned_file>>
    /\ UNCHANGED <<interp_vars, georef_vars, extent_vars>>
    /\ UNCHANGED downstream_vars

ClearHeader == CleanStep("header")

ClearLogo == CleanStep("logo")

CropFooter == CleanStep("crop")

InterpolateYellow == CleanStep("interpolate")

BackgroundTransparent == CleanStep("background")

\* radar_data.save(radar_output)
SaveCleaned ==
    /\ Len(steps_done) = Len(steps_of(script))
    /\ cleaned_file = NoImage
    /\ cleaned_file' = radar_data
    /\ UNCHANGED <<script, frame, steps_done, cleaned_img, radar_data>>
    /\ UNCHANGED <<interp_vars, georef_vars, extent_vars>>
    /\ UNCHANGED downstream_vars

NextClean ==
    \/ OpenFrame
    \/ ClearHeader
    \/ ClearLogo
    \/ CropFooter
    \/ InterpolateYellow
    \/ BackgroundTransparent
    \/ SaveCleaned

Spec == InitClean /\ [][NextClean]_vars

----------------------------------------------------------------------------
(* Driver of interpolate_yellow_pixels: one call, then a second call on    *)
(* the first call's result.                                                *)

InitInterp ==
    /\ script \in Scripts
    /\ CleanIdle
    /\ img \in InterpInputs
    /\ result = NoImage
    /\ again = NoImage
    /\ reads = {}
    /\ ipc = "given"
    /\ GeorefIdle
    /\ ExtentIdle
    /\ DownstreamIdle

Interpolate ==
    /\ ipc = "given"
    /\ result' = interpolate_of(script, img)
    /\ reads' = reads_of(script, img)
    /\ ipc' = "once"
    /\ UNCHANGED <<img, again, script>>
    /\ UNCHANGED <<clean_vars, georef_vars, extent_vars>>
    /\ UNCHANGED downstream_vars

InterpolateAgain ==
    /\ ipc = "once"
    /\ again' = interpolate_of(script, result)
    /\ reads' = reads_of(script, result)
    /\ ipc' = "twice"
    /\ UNCHANGED <<img, result, script>>
    /\ UNCHANGED <<clean_vars, georef_vars, extent_vars>>
    /\ UNCHANGED downstream_vars

NextInterp == Interpolate \/ InterpolateAgain

SpecInterp == InitInterp /\ [][NextInterp]_vars

----------------------------------------------------------------------------
(* interpolate_yellow_pixels, statement by statement.  The image passed in  *)
(* is the object "arg"; img.copy() makes the object "copy".  getpixel reads *)
(* the object img names, putpixel writes the object result names.          *)

\* A function body that binds result to the image it was given.
img_alias(objs) == [obj |-> "arg", objs |-> objs]

\* result = img.copy(): a new object with the pixels of img
img_copy(objs) ==
    [obj |-> "copy", objs |-> [objs EXCEPT !["copy"] = objs["arg"]]]

\* for y in range(height): for x in range(width): the i-th position visited
scan_position(image, i) == <<i % image.width, i \div image.width>>

\* The test of the running script on the pixel img.getpixel((x, y)) returned.
is_yellow_of(s, pixel) ==
    IF s = "georeference" THEN is_yellow(pixel) ELSE is_yellow_listener(pixel)

\* The tuple handed to result.putpixel for a yellow pixel at (x, y), computed
\* from what img.getpixel returns on the image read.
putpixel_value(s, image, x, y) ==
    IF s = "georeference" THEN interpolated_pixel(image, x, y)
    ELSE interpolated_pixel_listener(image, x, y)

\* result.putpixel((x, y), value)
putpixel(objs, o, p, value) == [objs EXCEPT ![o].px[p] = value]

\* The images the statement-level scan is tried on.
ScanInputs == UNION {ImagesOver(wh[1], wh[2], Palette) : wh \in Shapes}

scan_rest ==
    <<script, staged_vars, lock_vars, poll_vars, radar_vars,
      parallel_vars>>

InitScan ==
    /\ script \in Scripts
    /\ StagedIdle
    /\ LockIdle
    /\ PollIdle
    /\ RadarIdle
    /\ ParallelIdle
    /\ objects \in {[arg |-> image, copy |-> NoImage] : image \in ScanInputs}
    /\ result_obj = "none"
    /\ scan_at = 0
    /\ spc = "called"

\* width, height = img.size; result = img.copy()
CopyImage ==
    /\ spc = "called"
    /\ objects' = img_copy(objects).objs
    /\ result_obj' = img_copy(objects).obj
    /\ spc' = "scan"
    /\ UNCHANGED scan_at
    /\ UNCHANGED scan_rest

\* One pass of the inner for loop: pixel = img.getpixel((x, y)); a yellow
\* pixel is rewritten in result, any other is left as copied.
ScanPixel ==
    /\ spc = "scan"
    /\ scan_at < objects["arg"].width * objects["arg"].height
    /\ LET image == objects["arg"]
           p     == scan_position(image, scan_at)
           pixel == image.px[p]
       IN  objects' =
               IF is_yellow_of(script, pixel)
               THEN putpixel(objects, result_obj, p,
                             putpixel_value(script, image, p[1], p[2]))
               ELSE objects
    /\ scan_at' = scan_at + 1
    /\ UNCHANGED <<result_obj, spc>>
    /\ UNCHANGED scan_rest

\* return result
ReturnResult ==
    /\ spc = "scan"
    /\ scan_at = objects["arg"].width * objects["arg"].height
    /\ spc' = "returned"
    /\ UNCHANGED <<objects, result_obj, scan_at>>
    /\ UNCHANGED scan_rest

NextScan == CopyImage \/ ScanPixel \/ ReturnResult

SpecScan == InitScan /\ [][NextScan]_vars

----------------------------------------------------------------------------
(* create_geotiff_qgis_method (4_georeference.py) and georeference_radar   *)
(* (9_enhanced_weather_listener.py): gdal_translate attaches the ground    *)
(* control points, gdalwarp resamples into EPSG:3857.                      *)

\* The control points, each (pixel_x, pixel_y, web_mercator_x,
\* web_mercator_y) as the text str() puts on the command line.
qgis_gcps ==
    << <<"131.774", "336.906", "65931.872", "4949862.395">>,
       <<"137.66", "99.623", "73741.13", "5265877.036">>,
       <<"200.377", "223.472", "18555.707", "4973290.169">>,
       <<"234.113", "142.189", "204416.047", "5207567.909">>,
       <<"262.31", "250.326", "238386.32", "5056979.384">>,
       <<"111.776", "240.625", "36386.846", "5073769.289">>,
       <<"116.125", "256.682", "42113.635", "5054506.453">>,
       <<"100.403", "280.433", "22850.799", "5023790.038">>,
       <<"126.161", "340.646", "56170.3", "4942053.137">>,
       <<"66.951", "427.955", "-21401.663", "4825434.885">>,
       <<"407.156", "385.472", "425808.512", "4874372.901">>,
       <<"282.046", "441.002", "260772.859", "4808254.517">>,
       <<"377.718", "422.938", "384159.136", "4825955.502">>,
       <<"345.27", "474.788", "340947.908", "4759837.117">>,
       <<"220.829", "264.711", "183200.896", "5042532.257">>,
       <<"312.822", "210.519", "307628.407", "5108650.641">>,
       <<"355.891", "397.138", "355004.572", "4861357.471">>,
       <<"447.716", "411.69", "476828.997", "4839491.549">>,
       <<"342.343", "124.547", "349798.4", "5227871.98">>,
       <<"354.762", "135.587", "365416.916", "5212253.464">>,
       <<"351.5", "145.12", "362293.213", "5197676.183">>,
       <<"342.218", "143.364", "349798.4", "5201841.12">>,
       <<"348.364", "167.449", "358128.276", "5168521.619">>,
       <<"341.339", "190.908", "347715.932", "5138325.822">>,
       <<"275.607", "187.019", "258169.773", "5143531.994">>,
       <<"14.933", "409.933", "-103138.563", "4839491.549">>,
       <<"51.312", "324.631", "-42746.968", "4959233.505">>,
       <<"68.122", "311.083", "-20881.046", "4980058.193">>,
       <<"35.506", "248.361", "-65654.125", "5065439.414">>,
       <<"66.867", "221.014", "-24004.749", "5103965.087">>,
       <<"20.202", "268.432", "-84396.344", "5037065.776">>,
       <<"9.163", "270.439", "-99233.934", "5034202.382">>,
       <<"2.263", "270.314", "-108865.353", "5034202.382">>,
       <<"11.17", "175.478", "-98713.317", "5161753.596">>,
       <<"28.23", "180.997", "-73723.692", "5154985.572">>,
       <<"9.665", "145.371", "-108344.735", "5193250.936">>,
       <<"23.965", "75.248", "-82053.567", "5300237.771">>,
       <<"38.391", "90.552", "-61749.496", "5278892.466">>,
       <<"112.529", "96.573", "39770.858", "5270562.591">> >>

qgis_gcps_listener ==
    << <<"131.774", "336.906", "65931.872", "4949862.395">>,
       <<"137.66", "99.623", "73741.13", "5265877.036">>,
       <<"200.377", "223.472", "18555.707", "4973290.169">>,
       <<"234.113", "142.189", "204416.047", "5207567.909">>,
       <<"262.31", "250.326", "238386.32", "5056979.384">>,
       <<"111.776", "240.625", "36386.846", "5073769.289">>,
       <<"116.125", "256.682", "42113.635", "5054506.453">>,
       <<"100.403", "280.433", "22850.799", "5023790.038">>,
       <<"126.161", "340.646", "56170.3", "4942053.137">>,
       <<"66.951", "427.955", "-21401.663", "4825434.885">>,
       <<"407.156", "385.472", "425808.512", "4874372.901">>,
       <<"282.046", "441.002", "260772.859", "4808254.517">>,
       <<"377.718", "422.938", "384159.136", "4825955.502">>,
       <<"345.27", "474.788", "340947.908", "4759837.117">>,
       <<"220.829", "264.711", "183200.896", "5042532.257">>,
       <<"312.822", "210.519", "307628.407", "5108650.641">>,
       <<"355.891", "397.138", "355004.572", "4861357.471">>,
       <<"447.716", "411.69", "476828.997", "4839491.549">>,
       <<"342.343", "124.547", "349798.4", "5227871.98">>,
       <<"354.762", "135.587", "365416.916", "5212253.464">>,
       <<"351.5", "145.12", "362293.213", "5197676.183">>,
       <<"342.218", "143.364", "349798.4", "5201841.12">>,
       <<"348.364", "167.449", "358128.276", "5168521.619">>,
       <<"341.339", "190.908", "347715.932", "5138325.822">>,
       <<"275.607", "187.019", "258169.773", "5143531.994">>,
       <<"14.933", "409.933", "-103138.563", "4839491.549">>,
       <<"51.312", "324.631", "-42746.968", "4959233.505">>,
       <<"68.122", "311.083", "-20881.046", "4980058.193">>,
       <<"35.506", "248.361", "-65654.125", "5065439.414">>,
       <<"66.867", "221.014", "-24004.749", "5103965.087">>,
       <<"20.202", "268.432", "-84396.344", "5037065.776">>,
       <<"9.163", "270.439", "-99233.934", "5034202.382">>,
       <<"2.263", "270.314", "-108865.353", "5034202.382">>,
       <<"11.17", "175.478", "-98713.317", "5161753.596">>,
       <<"28.23", "180.997", "-73723.692", "5154985.572">>,
       <<"9.665", "145.371", "-108344.735", "5193250.936">>,
       <<"23.965", "75.248", "-82053.567", "5300237.771">>,
       <<"38.391", "90.552", "-61749.496", "5278892.466">>,
       <<"112.529", "96.573", "39770.858", "5270562.591">> >>

\* gcp_params.extend(['-gcp', str(px), str(py), str(mx), str(my)])
RECURSIVE gcp_params_of(_)
gcp_params_of(gcps) ==
    IF gcps = <<>> THEN <<>>
    ELSE <<"-gcp", Head(gcps)[1], Head(gcps)[2], Head(gcps)[3],
           Head(gcps)[4]>> \o gcp_params_of(Tail(gcps))

gcp_params == gcp_params_of(qgis_gcps)

gcp_params_listener == gcp_params_of(qgis_gcps_listener)

\* A warp command that asks for bilinear resampling.
cmd2_bilinear ==
    [r |-> "bilinear", order |-> "3", dstalpha |-> TRUE, overwrite |-> TRUE,
     t_srs |-> "EPSG:3857"]

\* cmd2 = ['gdalwarp', '-r', 'near', '-order', '3', ..., '-dstalpha',
\*         '-overwrite', '-t_srs', 'EPSG:3857', temp_file, output_file]
cmd2 ==
    [r |-> "near", order |-> "3", dstalpha |-> TRUE, overwrite |-> TRUE,
     t_srs |-> "EPSG:3857"]

cmd2_listener ==
    [r |-> "near", order |-> "3", dstalpha |-> TRUE, overwrite |-> TRUE,
     t_srs |-> "EPSG:3857"]

gcp_params_for(s) ==
    IF s = "georeference" THEN gcp_params ELSE gcp_params_listener

cmd2_for(s) == IF s = "georeference" THEN cmd2 ELSE cmd2_listener

\* The cleaned images handed to the warp: what clean_radar_image can save.
CleanedInputs == ImagesOver(2, 1, {Echo, NearGrey, TRANSPARENT})

\* The pixels of the warped raster.
DstPositions == Positions(2, 1)

\* What the fitted polynomial can put under an output pixel: a pixel of
\* the source, or nothing of it.
WarpMaps(image) ==
    [DstPositions -> Positions(image.width, image.height) \cup {Outside}]

\* The value gdalwarp's resampling -r takes from the source at position s:
\* near takes the pixel there, any other kernel mixes it with the next.
resample(r, image, s) ==
    LET t == IF <<s[1] + 1, s[2]>> \in DOMAIN image.px
             THEN <<s[1] + 1, s[2]>> ELSE s
    IN  IF r = "near" THEN image.px[s]
        ELSE [c \in 1..4 |-> (image.px[s][c] + image.px[t][c]) \div 2]

\* subprocess.run(cmd2, check=True): the raster gdalwarp writes for the
\* options of the command, when m tells which source position lies under
\* which output pixel.  With -dstalpha a pixel under which no source lies
\* has alpha 0.
gdalwarp(cmd, image, m) ==
    [width  |-> 2,
     height |-> 1,
     px     |-> [d \in DOMAIN m |->
                    IF m[d] = Outside
                    THEN IF cmd.dstalpha THEN TRANSPARENT ELSE Black
                    ELSE resample(cmd.r, image, m[d])]]

InitGeoref ==
    /\ script \in Scripts
    /\ frame = NoFrame
    /\ steps_done = <<>>
    /\ cleaned_img = NoImage
    /\ radar_data = NoImage
    /\ cleaned_file \in CleanedInputs
    /\ InterpIdle
    /\ ExtentIdle
    /\ DownstreamIdle
    /\ gcp_file = None
    /\ georef_file = None
    /\ warp_map = <<>>
    /\ gpc = "start"

\* subprocess.run(cmd1, check=True, ...): the temporary file holds the
\* cleaned image and one GCP for every five words of gcp_params.
GdalTranslate ==
    /\ gpc = "start"
    /\ gcp_file' = [image |-> cleaned_file,
                    gcps  |-> Len(gcp_params_for(script)) \div 5]
    /\ gpc' = "translated"
    /\ UNCHANGED <<georef_file, warp_map>>
    /\ UNCHANGED <<script, clean_vars, interp_vars, extent_vars>>
    /\ UNCHANGED downstream_vars

\* except subprocess.CalledProcessError: return None
GdalTranslateFails ==
    /\ gpc = "start"
    /\ gpc' = "failed"
    /\ georef_file' = None
    /\ UNCHANGED <<gcp_file, warp_map>>
    /\ UNCHANGED <<script, clean_vars, interp_vars, extent_vars>>
    /\ UNCHANGED downstream_vars

\* subprocess.run(cmd2, check=True, ...); 4_georeference.py then unlinks
\* the temporary file.
GdalWarp ==
    /\ gpc = "translated"
    /\ \E m \in WarpMaps(gcp_file.image) :
          /\ warp_map' = m
          /\ georef_file' = gdalwarp(cmd2_for(script), gcp_file.image, m)
    /\ gcp_file' = IF script = "georeference" THEN None ELSE gcp_file
    /\ gpc' = "warped"
    /\ UNCHANGED <<script, clean_vars, interp_vars, extent_vars>>
    /\ UNCHANGED downstream_vars

\* except subprocess.CalledProcessError: return None
GdalWarpFails ==
    /\ gpc = "translated"
    /\ gpc' = "failed"
    /\ georef_file' = None
    /\ UNCHANGED <<gcp_file, warp_map>>
    /\ UNCHANGED <<script, clean_vars, interp_vars, extent_vars>>
    /\ UNCHANGED downstream_vars

NextGeoref ==
    \/ GdalTranslate
    \/ GdalTranslateFails
    \/ GdalWarp
    \/ GdalWarpFails

SpecGeoref == InitGeoref /\ [][NextGeoref]_vars

----------------------------------------------------------------------------
(* get_radar_extent_for_geostationary (7_extract_water_vapor.py and the    *)
(* listener)                                                               *)

ExtentScripts == {"water_vapor", "listener"}

\* The georeferenced radar rasters: a north-up geotransform
\* (x0, pixel width, 0, y0, 0, -pixel height) and a size in pixels.
RadarDatasets ==
    {[gt |-> <<x0, pw, 0, y0, 0, -ph>>, cols |-> c, rows |-> r] :
        x0 \in {-1, 2}, y0 \in {3}, pw \in {1, 2}, ph \in {1, 2},
        c \in {1, 3}, r \in {2}}

\* The coordinate transformations between the two projections, each the
\* linear map (x, y) -> (a*x + b*y, c*x + d*y) that the projection change
\* amounts to over the radar's footprint; b and c are not 0 where the
\* change does not keep the axes aligned.
Transformations ==
    {t \in [a : -1..1, b : -1..1, c : -1..1, d : -1..1] :
        t.a * t.d - t.b * t.c # 0}

\* transform.TransformPoint(x, y)
TransformPoint(t, x, y) == <<t.a * x + t.b * y, t.c * x + t.d * y>>

\* The radar's bounds (min_x, min_y, max_x, max_y) from its geotransform.
radar_bounds(ds) ==
    LET min_x == ds.gt[1]
        max_y == ds.gt[4]
        max_x == min_x + (ds.gt[2] * ds.cols)
        min_y == max_y + (ds.gt[6] * ds.rows)
    IN  [min_x |-> min_x, min_y |-> min_y, max_x |-> max_x, max_y |-> max_y]

\* An extent that takes corner1 as the minimum and corner2 as the maximum.
get_radar_extent_unordered(ds, t) ==
    LET b       == radar_bounds(ds)
        corner1 == TransformPoint(t, b.min_x, b.min_y)
        corner2 == TransformPoint(t, b.max_x, b.max_y)
    IN  [min_x |-> corner1[1], max_x |-> corner2[1],
         min_y |-> corner1[2], max_y |-> corner2[2]]

\* 7_extract_water_vapor.py: corner1, corner2, then min and max of the two
get_radar_extent_for_geostationary(ds, t) ==
    LET b       == radar_bounds(ds)
        corner1 == TransformPoint(t, b.min_x, b.min_y)
        corner2 == TransformPoint(t, b.max_x, b.max_y)
    IN  [min_x |-> Min(corner1[1], corner2[1]),
         max_x |-> Max(corner1[1], corner2[1]),
         min_y |-> Min(corner1[2], corner2[2]),
         max_y |-> Max(corner1[2], corner2[2])]

\* The listener's function of the same name.
get_radar_extent_for_geostationary_listener(ds, t) ==
    LET min_x   == ds.gt[1]
        max_y   == ds.gt[4]
        max_x   == min_x + (ds.gt[2] * ds.cols)
        min_y   == max_y + (ds.gt[6] * ds.rows)
        corner1 == TransformPoint(t, min_x, min_y)
        corner2 == TransformPoint(t, max_x, max_y)
    IN  [min_x |-> Min(corner1[1], corner2[1]),
         max_x |-> Max(corner1[1], corner2[1]),
         min_y |-> Min(corner1[2], corner2[2]),
         max_y |-> Max(corner1[2], corner2[2])]

\* buffer = 50000  # 50km in meters
buffer == 50000

\* A window that is the extent itself, without the margin.
subset_window_no_buffer(ext) ==
    <<ext.min_x, ext.max_y, ext.max_x, ext.min_y>>

\* 7_extract_water_vapor.py subset_meteosat_data: the projWin handed to
\* gdal.TranslateOptions, [ulx, uly, lrx, lry].
subset_window(ext) ==
    LET min_x == ext.min_x - buffer
        max_x == ext.max_x + buffer
        min_y == ext.min_y - buffer
        max_y == ext.max_y + buffer
    IN  <<min_x, max_y, max_x, min_y>>

\* The listener's subset_meteosat_data builds the same list.
subset_window_listener(ext) ==
    LET min_x == ext.min_x - buffer
        max_x == ext.max_x + buffer
        min_y == ext.min_y - buffer
        max_y == ext.max_y + buffer
    IN  <<min_x, max_y, max_x, min_y>>

subset_window_of(s, ext) ==
    IF s = "water_vapor" THEN subset_window(ext)
    ELSE subset_window_listener(ext)

InitExtent ==
    /\ script \in ExtentScripts
    /\ CleanIdle
    /\ InterpIdle
    /\ GeorefIdle
    /\ DownstreamIdle
    /\ radar_ds \in RadarDatasets \cup {None}
    /\ transform \in Transformations
    /\ extent = None
    /\ proj_win = None
    /\ subset_file = None
    /\ epc = "start"

\* Both datasets open: the extent is computed and returned.
GetExtent ==
    /\ epc = "start"
    /\ radar_ds # None
    /\ extent' = IF script = "water_vapor"
                 THEN get_radar_extent_for_geostationary(radar_ds, transform)
                 ELSE get_radar_extent_for_geostationary_listener(radar_ds,
                                                                  transform)
    /\ epc' = "done"
    /\ UNCHANGED <<radar_ds, transform, proj_win, subset_file>>
    /\ UNCHANGED <<script, clean_vars, interp_vars, georef_vars>>
    /\ UNCHANGED downstream_vars

\* if not radar_ds: return None
ExtentUnavailable ==
    /\ epc = "start"
    /\ radar_ds = None
    /\ extent' = None
    /\ epc' = "done"
    /\ UNCHANGED <<radar_ds, transform, proj_win, subset_file>>
    /\ UNCHANGED <<script, clean_vars, interp_vars, georef_vars>>
    /\ UNCHANGED downstream_vars

\* subset_meteosat_data with an extent, gdal.Translate returning a
\* dataset: the subset covers the window asked for.
SubsetMeteosat ==
    /\ epc = "done"
    /\ extent # None
    /\ proj_win' = subset_window_of(script, extent)
    /\ subset_file' = [window |-> subset_window_of(script, extent)]
    /\ epc' = "subset"
    /\ UNCHANGED <<radar_ds, transform, extent>>
    /\ UNCHANGED <<script, clean_vars, interp_vars, georef_vars>>
    /\ UNCHANGED downstream_vars

\* gdal.Translate returns no dataset: "if not ds" / "return False".
SubsetFails ==
    /\ epc = "done"
    /\ extent # None
    /\ proj_win' = subset_window_of(script, extent)
    /\ subset_file' = None
    /\ epc' = "subset"
    /\ UNCHANGED <<radar_ds, transform, extent>>
    /\ UNCHANGED <<script, clean_vars, interp_vars, georef_vars>>
    /\ UNCHANGED downstream_vars

NextExtent == GetExtent \/ ExtentUnavailable \/ SubsetMeteosat \/ SubsetFails

SpecExtent == InitExtent /\ [][NextExtent]_vars

----------------------------------------------------------------------------
(* extract_water_vapor_bands (7_extract_water_vapor.py) and extract_wv_bands
   (9_enhanced_weather_listener.py)

   A calibration text is the list of the numbers that cal_params.split()
   yields: <<>> is the empty text, two numbers are "offset slope", any other
   count fails to unpack.  Offsets and slopes are whole numbers here, so
   that the scaling is exact. *)

\* wv_bands = {5: ..., 6: ...}, in the order the loop visits them
wv_bands == <<5, 6>>

\* info['name'] / band_name
band_name(b) == IF b = 5 THEN "wv_6.2um" ELSE "wv_7.3um"

\* info['cal_key']
cal_key(b) == IF b = 5 THEN "ch05_cal" ELSE "ch06_cal"

CalTexts == {<<>>, <<7>>, <<0, 1>>, <<7, 2>>, <<-5, 3>>}

Metadatas == [{"ch05_cal", "ch06_cal"} -> CalTexts]

\* The raw counts of one band of the subset, 10-bit values.
RawRasters == {<<0, 0>>, <<0, 1023>>, <<512, 7>>}

\* offset, slope = map(float, cal_params.split()); None where it raises
parse_calibration(cal_params) ==
    IF Len(cal_params) = 2
    THEN [offset |-> cal_params[1], slope |-> cal_params[2]]
    ELSE None

\* gdal.Translate's scaleParams [src_min, src_max, dst_min, dst_max]: the
\* linear map that sends src_min to dst_min and src_max to dst_max.
scale(v, params) ==
    ((v - params[1]) * (params[4] - params[3])) \div (params[2] - params[1])
        + params[3]

\* scaleParams=[[0, 1023, offset, offset + slope * 1023]]
scale_params(cal) ==
    <<0, 1023, cal.offset, cal.offset + cal.slope * 1023>>

\* 7_extract_water_vapor.py: the temp band file, the band scaled.
translate_band(values, cal) ==
    [i \in DOMAIN values |-> scale(values[i], scale_params(cal))]

\* The listener's gdal.Translate has no scaleParams: the band as stored.
translate_band_listener(values) == [i \in DOMAIN values |-> values[i]]

\* The band the loop is at.
current_band == wv_bands[Len(bands_done) + 1]

bands_fixed ==
    <<script, metadata, raw, upstream_vars, compose_vars, pipeline_vars,
      runtime_vars>>

InitBands ==
    /\ script \in {"water_vapor", "listener"}
    /\ UpstreamIdle
    /\ RuntimeIdle
    /\ ComposeIdle
    /\ PipelineIdle
    /\ metadata \in Metadatas
    /\ raw \in [{5, 6} -> RawRasters]
    /\ calibrated = [b \in {5, 6} |-> None]
    /\ output_files = <<>>
    /\ bands_done = <<>>
    /\ temp_files = {}
    /\ bpc = "start"

\* ds = gdal.Open(subset_file)
OpenSubset ==
    /\ bpc = "start"
    /\ bpc' = "loop"
    /\ UNCHANGED <<calibrated, output_files, bands_done, temp_files>>
    /\ UNCHANGED bands_fixed

\* if not ds: return []
OpenSubsetFails ==
    /\ bpc = "start"
    /\ bpc' = "returned"
    /\ UNCHANGED <<calibrated, output_files, bands_done, temp_files>>
    /\ UNCHANGED bands_fixed

\* 7_: "if not cal_params: print(Warning ...); continue"
SkipUncalibrated ==
    /\ bpc = "loop" /\ Len(bands_done) < Len(wv_bands)
    /\ script = "water_vapor"
    /\ metadata[cal_key(current_band)] = <<>>
    /\ bands_done' = Append(bands_done, current_band)
    /\ UNCHANGED <<calibrated, output_files, temp_files, bpc>>
    /\ UNCHANGED bands_fixed

\* 7_: the bare except around the parse: "continue"
SkipUnparsable ==
    /\ bpc = "loop" /\ Len(bands_done) < Len(wv_bands)
    /\ script = "water_vapor"
    /\ metadata[cal_key(current_band)] # <<>>
    /\ parse_calibration(metadata[cal_key(current_band)]) = None
    /\ bands_done' = Append(bands_done, current_band)
    /\ UNCHANGED <<calibrated, output_files, temp_files, bpc>>
    /\ UNCHANGED bands_fixed

\* The band reaches gdal.Translate: always in the listener, with a parsed
\* calibration in 7_.
ReachesTranslate ==
    /\ bpc = "loop" /\ Len(bands_done) < Len(wv_bands)
    /\ script = "water_vapor" =>
           parse_calibration(metadata[cal_key(current_band)]) # None

\* band_ds = gdal.Translate(temp_file, ds, ...) writes the temp band file.
TranslateBand ==
    /\ ReachesTranslate
    /\ calibrated' =
           [calibrated EXCEPT ![current_band] =
               IF script = "water_vapor"
               THEN translate_band(raw[current_band],
                        parse_calibration(metadata[cal_key(current_band)]))
               ELSE translate_band_listener(raw[current_band])]
    /\ temp_files' = temp_files \cup {current_band}
    /\ bpc' = "warp"
    /\ UNCHANGED <<output_files, bands_done>>
    /\ UNCHANGED bands_fixed

\* if not band_ds: continue
TranslateBandFails ==
    /\ ReachesTranslate
    /\ bands_done' = Append(bands_done, current_band)
    /\ UNCHANGED <<calibrated, output_files, temp_files, bpc>>
    /\ UNCHANGED bands_fixed

\* gdal.Warp returns a dataset: the output is appended, the temp band file
\* unlinked.
WarpBand ==
    /\ bpc = "warp"
    /\ output_files' = Append(output_files, band_name(current_band))
    /\ temp_files' = temp_files \ {current_band}
    /\ bands_done' = Append(bands_done, current_band)
    /\ bpc' = "loop"
    /\ UNCHANGED calibrated
    /\ UNCHANGED bands_fixed

\* gdal.Warp returns nothing: only the temp band file is unlinked.
WarpBandFails ==
    /\ bpc = "warp"
    /\ temp_files' = temp_files \ {current_band}
    /\ bands_done' = Append(bands_done, current_band)
    /\ bpc' = "loop"
    /\ UNCHANGED <<calibrated, output_files>>
    /\ UNCHANGED bands_fixed

\* return output_files
ReturnBands ==
    /\ bpc = "loop" /\ Len(bands_done) = Len(wv_bands)
    /\ bpc' = "returned"
    /\ UNCHANGED <<calibrated, output_files, bands_done, temp_files>>
    /\ UNCHANGED bands_fixed

\* The listener's "except Exception: return []" around the whole body.
BandsRaise ==
    /\ bpc \in {"loop", "warp"}
    /\ script = "listener"
    /\ output_files' = <<>>
    /\ bpc' = "returned"
    /\ UNCHANGED <<calibrated, bands_done, temp_files>>
    /\ UNCHANGED bands_fixed

NextBands ==
    \/ OpenSubset \/ OpenSubsetFails
    \/ SkipUncalibrated \/ SkipUnparsable
    \/ TranslateBand \/ TranslateBandFails
    \/ WarpBand \/ WarpBandFails
    \/ ReturnBands \/ BandsRaise

SpecBands == InitBands /\ [][NextBands]_vars

----------------------------------------------------------------------------
(* create_enhanced_image: 8_enhanced_meteosat.py, whose main saves the
   figure, and 9_enhanced_weather_listener.py.

   An artist is a record [layer, zorder]: what a plotting call adds to the
   axes, with the zorder matplotlib gives that kind of artist.  The saved
   figure of 8_ is followed at the centres of the radar's pixels; the
   colour-mapped figure of the listener is followed up to its artists and
   its limits. *)

ComposeScripts == {"enhanced", "listener"}

\* The blocks of 8_'s create_enhanced_image and main, in the order of the
\* code.
compose_steps ==
    <<"extent", "water_vapor", "vectors", "radar", "limits", "save">>

\* The blocks of the listener's create_enhanced_image.
compose_steps_listener ==
    <<"extent", "water_vapor", "radar", "vectors", "limits", "save">>

compose_steps_of(s) ==
    IF s = "enhanced" THEN compose_steps ELSE compose_steps_listener

\* buffer_km = 30000  # 30km in meters
buffer_km == 30000

\* matplotlib's default zorder: 0 for an image (imshow), 1 for the
\* collection a polygon plot makes, 2 for a line (ax.plot), 3 for a text.
zorder_of(layer) ==
    CASE layer \in {"satellite", "radar"} -> 0
      [] layer = "polygons" -> 1
      [] layer = "points" -> 2
      [] layer = "labels" -> 3

artist(layer) == [layer |-> layer, zorder |-> zorder_of(layer)]

WaterVapors == [bands : SUBSET {"wv_6.2", "wv_7.3"}, grey : {0, 200}]

\* total_bounds of the provinces, [minx, miny, maxx, maxy].
ProvinceBounds ==
    {<<-30000, -30000, 30000, 30000>>, <<10000, 20000, 300000, 250000>>}

\* src.bounds of the radar raster.
RadarBounds ==
    {[left |-> -60000, right |-> 60000, bottom |-> -60000, top |-> 60000],
     [left |-> 0, right |-> 200000, bottom |-> 50000, top |-> 150000]}

\* The georeferenced radar rasters read for the composite.
RadarLayers == ImagesOver(2, 1, {Echo, NearGrey, TRANSPARENT})

\* 8_: the province bounds with the buffer, or the radar bounds as fallback
compute_extent(vec, pb, info) ==
    IF "provinces" \in vec
    THEN [left |-> pb[1] - buffer_km, right |-> pb[3] + buffer_km,
          bottom |-> pb[2] - buffer_km, top |-> pb[4] + buffer_km]
    ELSE [left |-> info.left, right |-> info.right,
          bottom |-> info.bottom, top |-> info.top]

\* listener: extent = [radar_bounds.left, .right, .bottom, .top]
compute_extent_listener(info) ==
    [left |-> info.left, right |-> info.right,
     bottom |-> info.bottom, top |-> info.top]

\* 8_: "if water_vapor and 'wv_6.2' in water_vapor": ax.imshow(...)
draw_water_vapor(wv) ==
    IF "wv_6.2" \in wv.bands THEN <<artist("satellite")>> ELSE <<>>

\* listener: "if water_vapor_files": the 6.2um file, else the first file
draw_water_vapor_listener(wv) ==
    IF wv.bands # {} THEN <<artist("satellite")>> ELSE <<>>

\* The province plot, then for each city ax.plot and ax.text.
draw_vectors(vec) ==
    (IF "provinces" \in vec THEN <<artist("polygons")>> ELSE <<>>)
        \o (IF "cities" \in vec
            THEN <<artist("points"), artist("labels")>> ELSE <<>>)

\* 8_: ax.imshow(radar_display, ...) for an RGBA raster
draw_radar(layer) == <<artist("radar")>>

\* listener: band 1 masked where it is 0, drawn "if radar_masked.count() > 0"
draw_radar_listener(layer) ==
    IF \E p \in DOMAIN layer.px : layer.px[p][1] # 0
    THEN <<artist("radar")>> ELSE <<>>

\* The artists in the order matplotlib renders them: by zorder, and in call
\* order within one zorder.
rendered(artists) ==
    SelectSeq(artists, LAMBDA a : a.zorder = 0)
        \o SelectSeq(artists, LAMBDA a : a.zorder = 1)
        \o SelectSeq(artists, LAMBDA a : a.zorder = 2)
        \o SelectSeq(artists, LAMBDA a : a.zorder = 3)

\* facecolor='black' of the figure, of the axes and of savefig
facecolor == <<0, 0, 0, 255>>

\* The radar pixels a province edge, a city marker and a city label cover.
ProvinceCover == {<<0, 0>>}

CityCover == {<<1, 0>>}

\* src drawn over dst, 8-bit channels.
over(src, dst) ==
    LET a     == src[4]
        out_a == a + (dst[4] * (255 - a)) \div 255
        ch(c) == IF out_a = 0 THEN 0
                 ELSE (src[c] * a * 255 + dst[c] * dst[4] * (255 - a))
                          \div (255 * out_a)
    IN  <<ch(1), ch(2), ch(3), out_a>>

\* 8_: alpha set to 0 where alpha is 0 or the colour is black
radar_display(pixel) ==
    IF pixel[4] = 0 \/ (pixel[1] = 0 /\ pixel[2] = 0 /\ pixel[3] = 0)
    THEN <<pixel[1], pixel[2], pixel[3], 0>>
    ELSE pixel

\* What an artist of 8_ paints at the radar pixel p.
paint(a, p) ==
    CASE a.layer = "satellite" ->
             <<water_vapor.grey, water_vapor.grey, water_vapor.grey, 153>>
      [] a.layer = "radar" -> radar_display(radar_layer.px[p])
      [] a.layer = "polygons" ->
             IF p \in ProvinceCover THEN <<255, 255, 0, 204>> ELSE TRANSPARENT
      [] a.layer \in {"points", "labels"} ->
             IF p \in CityCover THEN <<255, 255, 255, 255>> ELSE TRANSPARENT

RECURSIVE composite(_, _, _)
composite(stack, p, canvas) ==
    IF stack = <<>> THEN canvas
    ELSE composite(Tail(stack), p, over(paint(Head(stack), p), canvas))

\* fig.savefig(output_file, ..., facecolor='black')
savefig(artists) ==
    [p \in DOMAIN radar_layer.px |-> composite(rendered(artists), p, facecolor)]

\* src.bounds of the water vapour raster for a radar raster of bounds info:
\* the radar footprint and the subsetting margin around it, after the warp.
WvBounds(info) ==
    {[left |-> info.left - m, right |-> info.right + m,
      bottom |-> info.bottom - m, top |-> info.top + m] : m \in {50000, 80000}}

\* 8_: extent=wv_extent for the water vapour, extent=radar_extent for the
\* radar, each made of the raster's own bounds.
imshow_extent(layer, wvb, info) ==
    IF layer = "satellite"
    THEN [left |-> wvb.left, right |-> wvb.right,
          bottom |-> wvb.bottom, top |-> wvb.top]
    ELSE [left |-> info.left, right |-> info.right,
          bottom |-> info.bottom, top |-> info.top]

\* listener: both imshow calls are given extent, made of radar_bounds.
imshow_extent_listener(layer, wvb, info) ==
    [left |-> info.left, right |-> info.right,
     bottom |-> info.bottom, top |-> info.top]

\* The extent= of the imshow calls among the artists just added.
placements(s, artists, wvb, info) ==
    {[layer  |-> artists[i].layer,
      extent |-> IF s = "enhanced"
                 THEN imshow_extent(artists[i].layer, wvb, info)
                 ELSE imshow_extent_listener(artists[i].layer, wvb, info)] :
        i \in {j \in DOMAIN artists : artists[j].layer \in {"satellite", "radar"}}}

compose_fixed ==
    <<script, water_vapor, vectors, prov_bounds, radar_info, radar_layer,
      wv_bounds,
      upstream_vars, bands_vars, pipeline_vars, runtime_vars>>

InitCompose ==
    /\ script \in ComposeScripts
    /\ UpstreamIdle
    /\ RuntimeIdle
    /\ BandsIdle
    /\ PipelineIdle
    /\ water_vapor \in WaterVapors
    /\ vectors \in SUBSET {"provinces", "cities"}
    /\ prov_bounds \in ProvinceBounds
    /\ radar_info \in RadarBounds
    /\ radar_layer \in RadarLayers
    /\ wv_bounds \in WvBounds(radar_info)
    /\ placed = {}
    /\ drawn = <<>>
    /\ extent_bounds = None
    /\ view = None
    /\ out_px = None
    /\ cpc = <<>>

\* The next block of the function, in the order of the running script.
ComposeStep(name) ==
    /\ Len(cpc) < Len(compose_steps_of(script))
    /\ cpc = SubSeq(compose_steps_of(script), 1, Len(cpc))
    /\ name = compose_steps_of(script)[Len(cpc) + 1]
    /\ cpc' = Append(cpc, name)
    /\ extent_bounds' =
           IF name # "extent" THEN extent_bounds
           ELSE IF script = "enhanced"
                THEN compute_extent(vectors, prov_bounds, radar_info)
                ELSE compute_extent_listener(radar_info)
    /\ drawn' =
           CASE name = "water_vapor" ->
                    drawn \o (IF script = "enhanced"
                              THEN draw_water_vapor(water_vapor)
                              ELSE draw_water_vapor_listener(water_vapor))
             [] name = "vectors" -> drawn \o draw_vectors(vectors)
             [] name = "radar" ->
                    drawn \o (IF script = "enhanced"
                              THEN draw_radar(radar_layer)
                              ELSE draw_radar_listener(radar_layer))
             [] OTHER -> drawn
    /\ placed' =
           placed \cup placements(script, SubSeq(drawn', Len(drawn) + 1, Len(drawn')),
                                  wv_bounds, radar_info)
    /\ view' =
           IF name # "limits" THEN view
           ELSE IF script = "enhanced" THEN extent_bounds
                ELSE compute_extent_listener(radar_info)
    /\ out_px' =
           IF name = "save" /\ script = "enhanced" THEN savefig(drawn)
           ELSE out_px
    /\ UNCHANGED compose_fixed

ComputeExtent == ComposeStep("extent")

DrawWaterVapor == ComposeStep("water_vapor")

DrawVectors == ComposeStep("vectors")

DrawRadar == ComposeStep("radar")

SetLimits == ComposeStep("limits")

SaveFigure == ComposeStep("save")

\* listener: "except Exception as e: ... return False"
ComposeFails ==
    /\ script = "listener"
    /\ Len(cpc) < Len(compose_steps_of(script))
    /\ cpc = SubSeq(compose_steps_of(script), 1, Len(cpc))
    /\ cpc' = Append(cpc, "failed")
    /\ UNCHANGED <<drawn, extent_bounds, view, out_px, placed>>
    /\ UNCHANGED compose_fixed

NextCompose ==
    \/ ComputeExtent \/ DrawWaterVapor \/ DrawVectors \/ DrawRadar
    \/ SetLimits \/ SaveFigure \/ ComposeFails

SpecCompose == InitCompose /\ [][NextCompose]_vars

----------------------------------------------------------------------------
(* The main loops and what they run for one file: process_image and main of
   4_georeference.py, process_radar_file and main of
   9_enhanced_weather_listener.py, main of 7_extract_water_vapor.py.

   A stage is followed by its outcome only: what it computes is the matter
   of the sections above.  An artefact is a pair <<file index, kind>>. *)

PipelineScripts == {"georeference", "listener", "water_vapor"}

\* A file of the list, by the number of fields its name splits into at '-':
\* 7 for a SEVIRI name (MSG3-SEVI-MSG15-0100-NA-<time>-NA.nat), 1 for a name
\* without '-'.  The radar frames are named radar_ba_<date>_<time>.gif.
NatFiles == {[fields |-> 7], [fields |-> 1]}

RadarFiles == {[fields |-> 1]}

Batches(s) ==
    UNION {[1..n -> IF s = "water_vapor" THEN NatFiles ELSE RadarFiles] :
              n \in 1..MaxFrames}

\* The first thing each script does for a file.
first_stage(s) ==
    CASE s = "georeference" -> "check"
      [] s = "listener" -> "session"
      [] s = "water_vapor" -> "extent"

\* The lists of band files an extraction can return with something in it.
BandFileLists == {<<"wv_6.2um">>, <<"wv_7.3um">>, <<"wv_6.2um", "wv_7.3um">>}

\* The artefacts of kinds K of the file being processed.
Made(K) == {<<frame_no, k>> : k \in K}

\* shutil.rmtree(temp_session_dir): everything of the file's session
rmtree_session == {a \in artefacts : a[1] # frame_no}

pipeline_fixed ==
    <<script, batch, upstream_vars, bands_vars, compose_vars, runtime_vars>>

main_loop == <<frame_no, attempted, kpc>>

InitPipeline ==
    /\ script \in PipelineScripts
    /\ UpstreamIdle
    /\ RuntimeIdle
    /\ BandsIdle
    /\ ComposeIdle
    /\ batch \in Batches(script)
    /\ frame_no = 0
    /\ attempted = <<>>
    /\ kpc = "loop"
    /\ stages_run = <<>>
    /\ failed = {}
    /\ artefacts = {}
    /\ water_vapor_files = <<>>
    /\ returned = "none"
    /\ ppc = "none"

\* "for image_path in images:", "for radar_file in unprocessed_files:",
\* "for nat_file in nat_files:" take the next file.
BeginFrame ==
    /\ kpc = "loop"
    /\ returned # "running"
    /\ frame_no < Len(batch)
    /\ frame_no' = frame_no + 1
    /\ attempted' = Append(attempted, frame_no + 1)
    /\ stages_run' = <<>>
    /\ failed' = {}
    /\ water_vapor_files' = <<>>
    /\ returned' = "running"
    /\ ppc' = first_stage(script)
    /\ UNCHANGED <<kpc, artefacts>>
    /\ UNCHANGED pipeline_fixed

\* The list is exhausted.
EndBatch ==
    /\ kpc = "loop"
    /\ returned # "running"
    /\ frame_no = Len(batch)
    /\ kpc' = "done"
    /\ UNCHANGED <<frame_no, attempted, stages_run, failed, artefacts,
                   water_vapor_files, returned, ppc>>
    /\ UNCHANGED pipeline_fixed

(* process_image of 4_georeference.py, called in main's try *)

\* check_gdal_installation() is True
CheckGdal ==
    /\ script = "georeference" /\ returned = "running" /\ ppc = "check"
    /\ ppc' = "clean"
    /\ UNCHANGED <<stages_run, failed, artefacts, water_vapor_files, returned>>
    /\ UNCHANGED main_loop
    /\ UNCHANGED pipeline_fixed

\* "if not check_gdal_installation(): return None"
GdalMissing ==
    /\ script = "georeference" /\ returned = "running" /\ ppc = "check"
    /\ returned' = "failure"
    /\ ppc' = "returned"
    /\ UNCHANGED <<stages_run, failed, artefacts, water_vapor_files>>
    /\ UNCHANGED main_loop
    /\ UNCHANGED pipeline_fixed

\* clean_radar_image saves the cleaned PNG and the footer GIF.
CleanImage ==
    /\ script = "georeference" /\ returned = "running" /\ ppc = "clean"
    /\ stages_run' = Append(stages_run, "clean")
    /\ artefacts' = artefacts \cup Made({"cleaned_image", "footer"})
    /\ ppc' = "translate"
    /\ UNCHANGED <<failed, water_vapor_files, returned>>
    /\ UNCHANGED main_loop
    /\ UNCHANGED pipeline_fixed

\* clean_radar_image raises (the frame cannot be opened); main's
\* "except Exception as e: print(...)" takes it and the loop goes on.
CleanImageRaises ==
    /\ script = "georeference" /\ returned = "running" /\ ppc = "clean"
    /\ stages_run' = Append(stages_run, "clean")
    /\ failed' = failed \cup {"clean"}
    /\ returned' = "raised"
    /\ ppc' = "returned"
    /\ UNCHANGED <<artefacts, water_vapor_files>>
    /\ UNCHANGED main_loop
    /\ UNCHANGED pipeline_fixed

\* gdal_translate writes the temporary file that carries the GCPs.
AddGcps ==
    /\ script = "georeference" /\ returned = "running" /\ ppc = "translate"
    /\ stages_run' = Append(stages_run, "translate")
    /\ artefacts' = artefacts \cup Made({"gcp_file"})
    /\ ppc' = "warp"
    /\ UNCHANGED <<failed, water_vapor_files, returned>>
    /\ UNCHANGED main_loop
    /\ UNCHANGED pipeline_fixed

\* CalledProcessError from gdal_translate: return None
AddGcpsFails ==
    /\ script = "georeference" /\ returned = "running" /\ ppc = "translate"
    /\ stages_run' = Append(stages_run, "translate")
    /\ failed' = failed \cup {"translate"}
    /\ returned' = "failure"
    /\ ppc' = "returned"
    /\ UNCHANGED <<artefacts, water_vapor_files>>
    /\ UNCHANGED main_loop
    /\ UNCHANGED pipeline_fixed

\* gdalwarp succeeds: temp_file.unlink(); return output_file
WarpImage ==
    /\ script = "georeference" /\ returned = "running" /\ ppc = "warp"
    /\ stages_run' = Append(stages_run, "warp")
    /\ artefacts' = artefacts \ Made({"gcp_file"})
    /\ returned' = "success"
    /\ ppc' = "returned"
    /\ UNCHANGED <<failed, water_vapor_files>>
    /\ UNCHANGED main_loop
    /\ UNCHANGED pipeline_fixed

\* CalledProcessError from gdalwarp: return None, the temp file stays
WarpImageFails ==
    /\ script = "georeference" /\ returned = "running" /\ ppc = "warp"
    /\ stages_run' = Append(stages_run, "warp")
    /\ failed' = failed \cup {"warp"}
    /\ returned' = "failure"
    /\ ppc' = "returned"
    /\ UNCHANGED <<artefacts, water_vapor_files>>
    /\ UNCHANGED main_loop
    /\ UNCHANGED pipeline_fixed

(* process_radar_file of the listener; every return inside its try runs
   the finally clause, which removes the session directory *)

\* TEMP_DIR.mkdir(exist_ok=True); temp_session_dir.mkdir(exist_ok=True)
StartSession ==
    /\ script = "listener" /\ returned = "running" /\ ppc = "session"
    /\ artefacts' = artefacts \cup Made({"session_dir"})
    /\ ppc' = "georeference"
    /\ UNCHANGED <<stages_run, failed, water_vapor_files, returned>>
    /\ UNCHANGED main_loop
    /\ UNCHANGED pipeline_fixed

\* mkdir raises OSError before the try: the exception leaves
\* process_radar_file and the for loop, and main's "except Exception"
\* logs it and sleeps until the next cycle.
SessionDirFails ==
    /\ script = "listener" /\ returned = "running" /\ ppc = "session"
    /\ returned' = "raised"
    /\ ppc' = "returned"
    /\ kpc' = "aborted"
    /\ UNCHANGED <<frame_no, attempted>>
    /\ UNCHANGED <<stages_run, failed, artefacts, water_vapor_files>>
    /\ UNCHANGED pipeline_fixed

\* georeference_radar returns the georeferenced file; the cleaned PNG and
\* the GCP file stay in the session directory.
GeoreferenceRadar ==
    /\ script = "listener" /\ returned = "running" /\ ppc = "georeference"
    /\ stages_run' = Append(stages_run, "georeference")
    /\ artefacts' =
           artefacts \cup Made({"cleaned_image", "gcp_file", "georef_file"})
    /\ ppc' = "download"
    /\ UNCHANGED <<failed, water_vapor_files, returned>>
    /\ UNCHANGED main_loop
    /\ UNCHANGED pipeline_fixed

\* georeference_radar returns None or raises: return False
GeoreferenceRadarFails ==
    /\ script = "listener" /\ returned = "running" /\ ppc = "georeference"
    /\ stages_run' = Append(stages_run, "georeference")
    /\ failed' = failed \cup {"georeference"}
    /\ artefacts' = rmtree_session
    /\ returned' = "failure"
    /\ ppc' = "returned"
    /\ UNCHANGED water_vapor_files
    /\ UNCHANGED main_loop
    /\ UNCHANGED pipeline_fixed

\* download_satellite_data returns the .nat file.
DownloadSatellite ==
    /\ script = "listener" /\ returned = "running" /\ ppc = "download"
    /\ stages_run' = Append(stages_run, "download")
    /\ artefacts' = artefacts \cup Made({"nat_file"})
    /\ ppc' = "extract"
    /\ UNCHANGED <<failed, water_vapor_files, returned>>
    /\ UNCHANGED main_loop
    /\ UNCHANGED pipeline_fixed

\* "if not satellite_file: ... return False"
DownloadSatelliteFails ==
    /\ script = "listener" /\ returned = "running" /\ ppc = "download"
    /\ stages_run' = Append(stages_run, "download")
    /\ failed' = failed \cup {"download"}
    /\ artefacts' = rmtree_session
    /\ returned' = "failure"
    /\ ppc' = "returned"
    /\ UNCHANGED water_vapor_files
    /\ UNCHANGED main_loop
    /\ UNCHANGED pipeline_fixed

\* extract_water_vapor: extent, subset and bands, with band files returned
ExtractWaterVapor ==
    /\ script = "listener" /\ returned = "running" /\ ppc = "extract"
    /\ \E files \in BandFileLists :
          /\ water_vapor_files' = files
          /\ artefacts' = artefacts \cup Made({"subset"})
                              \cup Made({files[i] : i \in DOMAIN files})
    /\ stages_run' = stages_run \o <<"extent", "subset", "bands">>
    /\ ppc' = "composite"
    /\ UNCHANGED <<failed, returned>>
    /\ UNCHANGED main_loop
    /\ UNCHANGED pipeline_fixed

\* extract_water_vapor returns []: no extent, no subset, no band file, or
\* an exception; process_radar_file goes on to step 4 with the empty list.
ExtractWaterVaporFails ==
    /\ script = "listener" /\ returned = "running" /\ ppc = "extract"
    /\ \E n \in 1..3 :
          /\ stages_run' =
                 stages_run \o SubSeq(<<"extent", "subset", "bands">>, 1, n)
          /\ failed' = failed \cup {<<"extent", "subset", "bands">>[n]}
          /\ artefacts' =
                 IF n = 3 THEN artefacts \cup Made({"subset"}) ELSE artefacts
    /\ water_vapor_files' = <<>>
    /\ ppc' = "composite"
    /\ UNCHANGED returned
    /\ UNCHANGED main_loop
    /\ UNCHANGED pipeline_fixed

\* create_enhanced_image returns True: "return success"
CreateEnhancedImage ==
    /\ script = "listener" /\ returned = "running" /\ ppc = "composite"
    /\ stages_run' = Append(stages_run, "composite")
    /\ artefacts' = rmtree_session
    /\ returned' = "success"
    /\ ppc' = "returned"
    /\ UNCHANGED <<failed, water_vapor_files>>
    /\ UNCHANGED main_loop
    /\ UNCHANGED pipeline_fixed

\* create_enhanced_image returns False
CreateEnhancedImageFails ==
    /\ script = "listener" /\ returned = "running" /\ ppc = "composite"
    /\ stages_run' = Append(stages_run, "composite")
    /\ failed' = failed \cup {"composite"}
    /\ artefacts' = rmtree_session
    /\ returned' = "failure"
    /\ ppc' = "returned"
    /\ UNCHANGED water_vapor_files
    /\ UNCHANGED main_loop
    /\ UNCHANGED pipeline_fixed

(* The body of the for loop of 7_extract_water_vapor.py's main *)

\* get_radar_extent_for_geostationary returns an extent.
NatExtent ==
    /\ script = "water_vapor" /\ returned = "running" /\ ppc = "extent"
    /\ stages_run' = Append(stages_run, "extent")
    /\ ppc' = "timestamp"
    /\ UNCHANGED <<failed, artefacts, water_vapor_files, returned>>
    /\ UNCHANGED main_loop
    /\ UNCHANGED pipeline_fixed

\* "if not extent: continue"
NatExtentFails ==
    /\ script = "water_vapor" /\ returned = "running" /\ ppc = "extent"
    /\ stages_run' = Append(stages_run, "extent")
    /\ failed' = failed \cup {"extent"}
    /\ returned' = "failure"
    /\ ppc' = "returned"
    /\ UNCHANGED <<artefacts, water_vapor_files>>
    /\ UNCHANGED main_loop
    /\ UNCHANGED pipeline_fixed

\* timestamp_part = filename.split('-')[5]
NatTimestamp ==
    /\ script = "water_vapor" /\ returned = "running" /\ ppc = "timestamp"
    /\ batch[frame_no].fields > 5
    /\ ppc' = "subset"
    /\ UNCHANGED <<stages_run, failed, artefacts, water_vapor_files, returned>>
    /\ UNCHANGED main_loop
    /\ UNCHANGED pipeline_fixed

\* split('-')[5] raises IndexError; nothing in main catches it.
NatTimestampRaises ==
    /\ script = "water_vapor" /\ returned = "running" /\ ppc = "timestamp"
    /\ batch[frame_no].fields <= 5
    /\ returned' = "raised"
    /\ ppc' = "returned"
    /\ kpc' = "aborted"
    /\ UNCHANGED <<frame_no, attempted>>
    /\ UNCHANGED <<stages_run, failed, artefacts, water_vapor_files>>
    /\ UNCHANGED pipeline_fixed

\* subset_meteosat_data returns the subset file.
NatSubset ==
    /\ script = "water_vapor" /\ returned = "running" /\ ppc = "subset"
    /\ stages_run' = Append(stages_run, "subset")
    /\ artefacts' = artefacts \cup Made({"subset"})
    /\ ppc' = "bands"
    /\ UNCHANGED <<failed, water_vapor_files, returned>>
    /\ UNCHANGED main_loop
    /\ UNCHANGED pipeline_fixed

\* "if not subset_file: continue"
NatSubsetFails ==
    /\ script = "water_vapor" /\ returned = "running" /\ ppc = "subset"
    /\ stages_run' = Append(stages_run, "subset")
    /\ failed' = failed \cup {"subset"}
    /\ returned' = "failure"
    /\ ppc' = "returned"
    /\ UNCHANGED <<artefacts, water_vapor_files>>
    /\ UNCHANGED main_loop
    /\ UNCHANGED pipeline_fixed

\* extract_water_vapor_bands, create_metadata "if output_files", and
\* os.unlink(subset_file).
NatBands ==
    /\ script = "water_vapor" /\ returned = "running" /\ ppc = "bands"
    /\ \E files \in BandFileLists \cup {<<>>} :
          /\ water_vapor_files' = files
          /\ stages_run' =
                 IF files = <<>> THEN Append(stages_run, "bands")
                 ELSE stages_run \o <<"bands", "metadata">>
          /\ failed' = IF files = <<>> THEN failed \cup {"bands"} ELSE failed
          /\ returned' = IF files = <<>> THEN "failure" ELSE "success"
    /\ artefacts' = artefacts \ Made({"subset"})
    /\ ppc' = "returned"
    /\ UNCHANGED main_loop
    /\ UNCHANGED pipeline_fixed

NextPipeline ==
    \/ BeginFrame \/ EndBatch
    \/ CheckGdal \/ GdalMissing \/ CleanImage \/ CleanImageRaises
    \/ AddGcps \/ AddGcpsFails \/ WarpImage \/ WarpImageFails
    \/ StartSession \/ SessionDirFails
    \/ GeoreferenceRadar \/ GeoreferenceRadarFails
    \/ DownloadSatellite \/ DownloadSatelliteFails
    \/ ExtractWaterVapor \/ ExtractWaterVaporFails
    \/ CreateEnhancedImage \/ CreateEnhancedImageFails
    \/ NatExtent \/ NatExtentFails \/ NatTimestamp \/ NatTimestampRaises
    \/ NatSubset \/ NatSubsetFails \/ NatBands

SpecPipeline == InitPipeline /\ [][NextPipeline]_vars

----------------------------------------------------------------------------
(* The lock of 9_enhanced_weather_listener.py: check_and_create_lock,       *)
(* remove_lock and the part of main around them, for two listener          *)
(* processes that share the working directory.  Each file-system call is   *)
(* one step.  PID 7 is a process that runs throughout, PID 9 is none.       *)

\* The lock file holds JSON with this pid; 0 stands for no pid field.
Json(p) == [state |-> "json", pid |-> p]

\* open(LOCK_FILE, 'w') has truncated the file and nothing is written yet.
Truncated == [state |-> "empty", pid |-> 0]

\* The file holds text that is no JSON.
Garbage == [state |-> "garbage", pid |-> 0]

\* A process is running from its start until main returns or raises.
Alive(i) == lpc[i] \notin {"idle", "returned_1", "stopped", "crashed"}

\* psutil.pid_exists(pid)
pid_exists(p) == p = 7 \/ (p \in Instances /\ Alive(p))

\* A test that takes any pid in the file for a running service.
after_load_any_pid(p) == IF p # 0 THEN "returned_1" ELSE "stale_unlink"

\* "if pid and psutil.pid_exists(pid): return False", "else: unlink"; main
\* returns 1 when check_and_create_lock returns False.
after_load(p) ==
    IF p # 0 /\ pid_exists(p) THEN "returned_1" ELSE "stale_unlink"

\* A main whose remove_lock is not in a finally clause and is skipped on
\* the way out.
leave_loop_no_finally == "stopped"

\* "finally: remove_lock()": where control goes when the while loop is left
\* by break or by an exception.
leave_loop == "finally"

\* The statements of the service loop: the body of the inner try, the sleep
\* at its end, and the sleep of "except Exception".
LoopStates == {"poll", "sleep", "retry_sleep"}

lock_rest ==
    <<script, staged_vars, scan_vars, poll_vars, radar_vars,
      parallel_vars>>

\* One process takes a step from `from` to `to`.
Goes(i, from, to) ==
    /\ lpc[i] = from
    /\ lpc' = [lpc EXCEPT ![i] = to]

InitLock ==
    /\ script = "listener"
    /\ StagedIdle
    /\ ScanIdle
    /\ PollIdle
    /\ RadarIdle
    /\ ParallelIdle
    /\ lock_file \in {Absent, Json(7), Json(9), Json(0), Garbage}
    /\ lpc = [i \in Instances |-> "start"]
    /\ lock_data = [i \in Instances |-> Unread]
    /\ acquired = {}
    /\ remove_calls = {}

\* main: check_dependencies() is True
StartMain(i) ==
    /\ Goes(i, "start", "exists")
    /\ UNCHANGED <<lock_file, lock_data, acquired, remove_calls>>
    /\ UNCHANGED lock_rest

\* main: "if not check_dependencies(): return 1"
DependenciesMissing(i) ==
    /\ Goes(i, "start", "returned_1")
    /\ UNCHANGED <<lock_file, lock_data, acquired, remove_calls>>
    /\ UNCHANGED lock_rest

\* check_and_create_lock: "if LOCK_FILE.exists():"
LockExists(i) ==
    /\ Goes(i, "exists", IF lock_file = Absent THEN "create" ELSE "read")
    /\ UNCHANGED <<lock_file, lock_data, acquired, remove_calls>>
    /\ UNCHANGED lock_rest

\* open(LOCK_FILE, 'r') and json.load(f), then the test on pid.  A file
\* that is gone, empty or no JSON raises into "except Exception".
ReadLock(i) ==
    /\ lpc[i] = "read"
    /\ IF lock_file.state = "json"
       THEN /\ lock_data' = [lock_data EXCEPT
                                ![i] = [got |-> "data", pid |-> lock_file.pid]]
            /\ lpc' = [lpc EXCEPT ![i] = after_load(lock_file.pid)]
       ELSE /\ lock_data' = [lock_data EXCEPT ![i] = [got |-> "error", pid |-> 0]]
            /\ lpc' = [lpc EXCEPT ![i] = "except_unlink"]
    /\ UNCHANGED <<lock_file, acquired, remove_calls>>
    /\ UNCHANGED lock_rest

\* "Removing stale lock file": LOCK_FILE.unlink() inside the try; on a file
\* that is gone it raises FileNotFoundError into "except Exception".
UnlinkStale(i) ==
    /\ Goes(i, "stale_unlink",
            IF lock_file = Absent THEN "except_unlink" ELSE "create")
    /\ lock_file' = Absent
    /\ UNCHANGED <<lock_data, acquired, remove_calls>>
    /\ UNCHANGED lock_rest

\* LOCK_FILE.unlink() of the except clause; on a file that is gone the
\* FileNotFoundError leaves check_and_create_lock and main.
UnlinkUnreadable(i) ==
    /\ Goes(i, "except_unlink", IF lock_file = Absent THEN "crashed" ELSE "create")
    /\ lock_file' = Absent
    /\ UNCHANGED <<lock_data, acquired, remove_calls>>
    /\ UNCHANGED lock_rest

\* with open(LOCK_FILE, 'w') as f: the file is created or truncated
OpenLockForWrite(i) ==
    /\ Goes(i, "create", "dump")
    /\ lock_file' = Truncated
    /\ UNCHANGED <<lock_data, acquired, remove_calls>>
    /\ UNCHANGED lock_rest

\* json.dump(lock_data, f) with the process's own pid, the file is closed,
\* check_and_create_lock returns True and main enters its try.  A file that
\* was unlinked meanwhile stays unlinked: the write goes to the open file.
WriteLock(i) ==
    /\ Goes(i, "dump", "poll")
    /\ lock_file' = IF lock_file = Absent THEN Absent ELSE Json(i)
    /\ acquired' = acquired \cup {i}
    /\ UNCHANGED <<lock_data, remove_calls>>
    /\ UNCHANGED lock_rest

\* The body of the inner try ran; time.sleep(POLL_INTERVAL_MINUTES * 60)
PollCycle(i) ==
    /\ Goes(i, "poll", "sleep")
    /\ UNCHANGED <<lock_file, lock_data, acquired, remove_calls>>
    /\ UNCHANGED lock_rest

\* "except Exception": the error is logged, time.sleep(60)
PollRaises(i) ==
    /\ Goes(i, "poll", "retry_sleep")
    /\ UNCHANGED <<lock_file, lock_data, acquired, remove_calls>>
    /\ UNCHANGED lock_rest

\* A sleep is over: "while True" again
NextCycle(i) ==
    /\ lpc[i] \in {"sleep", "retry_sleep"}
    /\ lpc' = [lpc EXCEPT ![i] = "poll"]
    /\ UNCHANGED <<lock_file, lock_data, acquired, remove_calls>>
    /\ UNCHANGED lock_rest

\* KeyboardInterrupt inside the inner try ("break"), or inside the sleep of
\* the except clause, where it propagates: both leave the while loop.
Interrupt(i) ==
    /\ lpc[i] \in LoopStates
    /\ lpc' = [lpc EXCEPT ![i] = leave_loop]
    /\ UNCHANGED <<lock_file, lock_data, acquired, remove_calls>>
    /\ UNCHANGED lock_rest

\* remove_lock(): "if LOCK_FILE.exists():"
RemoveLock(i) ==
    /\ Goes(i, "finally", IF lock_file = Absent THEN "stopped" ELSE "remove_unlink")
    /\ remove_calls' = remove_calls \cup {i}
    /\ UNCHANGED <<lock_file, lock_data, acquired>>
    /\ UNCHANGED lock_rest

\* remove_lock(): LOCK_FILE.unlink(); on a file that is gone the
\* FileNotFoundError leaves the finally clause and main.
RemoveLockUnlink(i) ==
    /\ Goes(i, "remove_unlink", IF lock_file = Absent THEN "crashed" ELSE "stopped")
    /\ lock_file' = Absent
    /\ UNCHANGED <<lock_data, acquired, remove_calls>>
    /\ UNCHANGED lock_rest

NextLock ==
    \E i \in Instances :
        \/ StartMain(i) \/ DependenciesMissing(i) \/ LockExists(i)
        \/ ReadLock(i) \/ UnlinkStale(i) \/ UnlinkUnreadable(i)
        \/ OpenLockForWrite(i) \/ WriteLock(i)
        \/ PollCycle(i) \/ PollRaises(i) \/ NextCycle(i) \/ Interrupt(i)
        \/ RemoveLock(i) \/ RemoveLockUnlink(i)

SpecLock == InitLock /\ [][NextLock]_vars

----------------------------------------------------------------------------
(* The poll cycles of 9_enhanced_weather_listener.py: get_unprocessed_files *)
(* and the for loop of main over what it returns.  A frame is the pair      *)
(* <<date, time>> of a file data/radar_ba_<date>_<time>.gif; its timestamp  *)
(* names enhanced_weather/enhanced_weather_<date>_<time>.png.               *)

\* The frames of two days, two per day.
AllFrames == {1, 2} \X {1, 2}

\* sorted(glob.glob(...)): the files of one date in the order of their names
RECURSIVE sorted_files(_)
sorted_files(S) ==
    IF S = {} THEN <<>>
    ELSE LET first == CHOOSE f \in S : \A g \in S : f[2] <= g[2]
         IN  <<first>> \o sorted_files(S \ {first})

\* A get_unprocessed_files that does not look for the enhanced file.
get_unprocessed_files_all(day, radar, out) ==
    sorted_files({f \in radar : f[1] = day})

\* glob of data/radar_ba_{today}_*.gif, sorted, keeping the files whose
\* enhanced_weather_{timestamp}.png does not exist
get_unprocessed_files(day, radar, out) ==
    SelectSeq(sorted_files({f \in radar : f[1] = day}), LAMBDA f : f \notin out)

\* radar_file of the for loop
current_file == unprocessed[file_no + 1]

poll_rest ==
    <<script, staged_vars, scan_vars, lock_vars, radar_vars,
      parallel_vars>>

InitPoll ==
    /\ script = "listener"
    /\ StagedIdle
    /\ ScanIdle
    /\ LockIdle
    /\ RadarIdle
    /\ ParallelIdle
    /\ today = 1
    /\ radar_dir \in SUBSET {f \in AllFrames : f[1] = 1}
    /\ enhanced_dir = {}
    /\ unprocessed = <<>>
    /\ file_no = 0
    /\ results = [f \in AllFrames |-> "none"]
    /\ qpc = "poll"

\* unprocessed_files = get_unprocessed_files()
GetUnprocessed ==
    /\ qpc = "poll"
    /\ unprocessed' = get_unprocessed_files(today, radar_dir, enhanced_dir)
    /\ file_no' = 0
    /\ qpc' = "loop"
    /\ UNCHANGED <<today, radar_dir, enhanced_dir, results>>
    /\ UNCHANGED poll_rest

\* process_radar_file(radar_file) returns True: create_enhanced_image saved
\* enhanced_weather_{timestamp}.png
ProcessSucceeds ==
    /\ qpc = "loop" /\ file_no < Len(unprocessed)
    /\ enhanced_dir' = enhanced_dir \cup {current_file}
    /\ results' = [results EXCEPT ![current_file] = "true"]
    /\ file_no' = file_no + 1
    /\ UNCHANGED <<today, radar_dir, unprocessed, qpc>>
    /\ UNCHANGED poll_rest

\* process_radar_file(radar_file) returns False: a stage failed, or no
\* satellite data is available yet; no image is saved
ProcessFails ==
    /\ qpc = "loop" /\ file_no < Len(unprocessed)
    /\ results' = [results EXCEPT ![current_file] = "false"]
    /\ file_no' = file_no + 1
    /\ UNCHANGED <<today, radar_dir, enhanced_dir, unprocessed, qpc>>
    /\ UNCHANGED poll_rest

\* process_radar_file raises before its try (mkdir): main's "except
\* Exception" logs it and sleeps 60 seconds; the rest of the list is dropped
ProcessRaises ==
    /\ qpc = "loop" /\ file_no < Len(unprocessed)
    /\ qpc' = "sleep"
    /\ UNCHANGED <<today, radar_dir, enhanced_dir, unprocessed, file_no, results>>
    /\ UNCHANGED poll_rest

\* The list is exhausted: cleanup_old_files(), which removes images older
\* than 365 days only, and time.sleep(POLL_INTERVAL_MINUTES * 60)
EndCycle ==
    /\ qpc = "loop" /\ file_no = Len(unprocessed)
    /\ qpc' = "sleep"
    /\ UNCHANGED <<today, radar_dir, enhanced_dir, unprocessed, file_no, results>>
    /\ UNCHANGED poll_rest

\* The sleep is over: "while True" again
WakeUp ==
    /\ qpc = "sleep"
    /\ qpc' = "poll"
    /\ UNCHANGED <<today, radar_dir, enhanced_dir, unprocessed, file_no, results>>
    /\ UNCHANGED poll_rest

\* The radar listener saves a new frame of the current date in data/.
RadarArrives ==
    /\ qpc # "idle"
    /\ \E f \in AllFrames \ radar_dir :
          /\ f[1] = today
          /\ radar_dir' = radar_dir \cup {f}
    /\ UNCHANGED <<today, enhanced_dir, unprocessed, file_no, results, qpc>>
    /\ UNCHANGED poll_rest

\* Midnight passes: datetime.now() gives the next date.
Midnight ==
    /\ qpc # "idle"
    /\ today = 1
    /\ today' = 2
    /\ UNCHANGED <<radar_dir, enhanced_dir, unprocessed, file_no, results, qpc>>
    /\ UNCHANGED poll_rest

NextPoll ==
    \/ GetUnprocessed \/ ProcessSucceeds \/ ProcessFails \/ ProcessRaises
    \/ EndCycle \/ WakeUp \/ RadarArrives \/ Midnight

SpecPoll == InitPoll /\ [][NextPoll]_vars

----------------------------------------------------------------------------
(* The main loop of 3_radar_listener.py.  Time is counted in minutes of the *)
(* day; a call of download_radar takes no time or one minute.               *)

\* calculate_wait_time: 0 when today has no image, else what is left of 15
\* minutes after the last image, never negative
calculate_wait_time(t, last) ==
    IF last = -1 THEN 0 ELSE Max(0, (last + 15) - t)

radar_rest ==
    <<script, staged_vars, scan_vars, lock_vars, poll_vars,
      parallel_vars>>

InitRadar ==
    /\ script = "radar_listener"
    /\ StagedIdle
    /\ ScanIdle
    /\ LockIdle
    /\ PollIdle
    /\ ParallelIdle
    /\ now \in {0, 10, 30}
    /\ last_image \in {-1, 0, 5}
    /\ last_image <= now
    /\ wait_time = 0
    /\ calls = 0
    /\ rpc = "calc"

\* wait_time = calculate_wait_time()
CalculateWait ==
    /\ rpc = "calc"
    /\ wait_time' = calculate_wait_time(now, last_image)
    /\ rpc' = IF wait_time' > 0 THEN "sleep" ELSE "download"
    /\ UNCHANGED <<now, last_image, calls>>
    /\ UNCHANGED radar_rest

\* "if wait_time > 0: time.sleep(wait_time)"
SleepWait ==
    /\ rpc = "sleep"
    /\ now' = now + wait_time
    /\ rpc' = "download"
    /\ UNCHANGED <<last_image, wait_time, calls>>
    /\ UNCHANGED radar_rest

\* download_radar() saves data/radar_ba_<now>.gif and returns True; then
\* create_animation() and cleanup_old_files()
DownloadSaves ==
    /\ rpc = "download" /\ calls < MaxCalls
    /\ \E d \in {0, 1} :
          /\ now' = now + d
          /\ last_image' = now + d
    /\ calls' = calls + 1
    /\ rpc' = "calc"
    /\ UNCHANGED wait_time
    /\ UNCHANGED radar_rest

\* download_radar(): status 429, "Rate limited. Skipping this cycle.",
\* returns False; then cleanup_old_files()
DownloadRateLimited ==
    /\ rpc = "download" /\ calls < MaxCalls
    /\ now' = now
    /\ calls' = calls + 1
    /\ rpc' = "calc"
    /\ UNCHANGED <<last_image, wait_time>>
    /\ UNCHANGED radar_rest

\* download_radar(): another status, an image status that is not 200, or an
\* exception such as a timeout; returns False; then cleanup_old_files()
DownloadFails ==
    /\ rpc = "download" /\ calls < MaxCalls
    /\ \E d \in {0, 1} : now' = now + d
    /\ calls' = calls + 1
    /\ rpc' = "calc"
    /\ UNCHANGED <<last_image, wait_time>>
    /\ UNCHANGED radar_rest

NextRadar ==
    \/ CalculateWait \/ SleepWait \/ DownloadSaves \/ DownloadRateLimited
    \/ DownloadFails

SpecRadar == InitRadar /\ [][NextRadar]_vars

----------------------------------------------------------------------------
(* Two pipeline instances side by side, each on its own frame: the band     *)
(* loop of extract_water_vapor_bands (7_extract_water_vapor.py) and of      *)
(* extract_wv_bands as process_radar_file runs it (listener).  Instance w   *)
(* works on frame w.  A temp file is <<directory, band>>: directory w is    *)
(* the listener's temp_enhanced/session_<timestamp of frame w>, directory 0 *)
(* is meteosat_data/processed, which both instances of 7_ are given.        *)

Workers == {1, 2}

\* 7_: output_dir / f"temp_band_{band_num}.tif"; listener: temp_dir /
\* f"temp_band_{band_num}.tif" with temp_dir the session directory
temp_band_file(s, w, b) == IF s = "listener" THEN <<w, b>> ELSE <<0, b>>

\* The band the instance is at, and the temp file it uses for it.
band_of(w) == wv_bands[wpc[w].band]

temp_of(w) == temp_band_file(script, w, band_of(w))

\* The instance goes on to statement `at` of band number k of the loop.
Proceeds(w, k, at) == wpc' = [wpc EXCEPT ![w] = [band |-> k, at |-> at]]

parallel_rest ==
    <<script, staged_vars, scan_vars, lock_vars, poll_vars, radar_vars>>

InitParallel ==
    /\ script \in {"water_vapor", "listener"}
    /\ StagedIdle
    /\ ScanIdle
    /\ LockIdle
    /\ PollIdle
    /\ RadarIdle
    /\ temp_band = [p \in (Workers \cup {0}) \X {5, 6} |-> 0]
    /\ band_out = [p \in Workers \X {5, 6} |-> 0]
    /\ touched = [w \in Workers |-> {}]
    /\ wpc = [w \in Workers |-> [band |-> 1, at |-> "translate"]]

\* gdal.Translate(str(temp_file), ds, ...): the band of the instance's own
\* subset is written to the temp file, replacing what is there
TranslateToTemp(w) ==
    /\ wpc[w].at = "translate"
    /\ temp_band' = [temp_band EXCEPT ![temp_of(w)] = w]
    /\ touched' = [touched EXCEPT ![w] = @ \cup {temp_of(w)}]
    /\ Proceeds(w, wpc[w].band, "warp")
    /\ UNCHANGED band_out
    /\ UNCHANGED parallel_rest

\* gdal.Warp(str(output_file), str(temp_file), ...): the output file of the
\* instance's timestamp gets what the temp file holds now; there is no
\* output when the temp file is gone
WarpFromTemp(w) ==
    /\ wpc[w].at = "warp"
    /\ band_out' = [band_out EXCEPT ![<<w, band_of(w)>>] = temp_band[temp_of(w)]]
    /\ touched' = [touched EXCEPT ![w] = @ \cup {temp_of(w)}]
    /\ Proceeds(w, wpc[w].band, "unlink")
    /\ UNCHANGED temp_band
    /\ UNCHANGED parallel_rest

\* "if temp_file.exists(): temp_file.unlink()", then the next band or the
\* end of the loop
UnlinkTemp(w) ==
    /\ wpc[w].at = "unlink"
    /\ temp_band' = [temp_band EXCEPT ![temp_of(w)] = 0]
    /\ touched' = [touched EXCEPT ![w] = @ \cup {temp_of(w)}]
    /\ IF wpc[w].band < Len(wv_bands)
       THEN Proceeds(w, wpc[w].band + 1, "translate")
       ELSE Proceeds(w, wpc[w].band, "done")
    /\ UNCHANGED band_out
    /\ UNCHANGED parallel_rest

NextParallel ==
    \E w \in Workers : TranslateToTemp(w) \/ WarpFromTemp(w) \/ UnlinkTemp(w)

SpecParallel == InitParallel /\ [][NextParallel]_vars

----------------------------------------------------------------------------
(* Properties of interpolate_yellow_pixels *)

\* Marker colour as the specification words it.
Marker(pixel) ==
    pixel[1] > 80 /\ pixel[2] > 80 /\ pixel[3] < 50
        /\ pixel[1] - pixel[2] < 30 /\ pixel[2] - pixel[1] < 30

\* The orthogonal and diagonal neighbours of p that lie inside the image.
Around(image, p) ==
    {q \in Positions(image.width, image.height) :
        q # p /\ Abs(q[1] - p[1]) <= 1 /\ Abs(q[2] - p[2]) <= 1}

\* The neighbours of p that are not marker-coloured in the image.
Qualifying(image, p) == {q \in Around(image, p) : ~Marker(image.px[q])}

RECURSIVE ChannelTotal(_, _, _)
ChannelTotal(image, S, c) ==
    IF S = {} THEN 0
    ELSE LET q == CHOOSE q \in S : TRUE
         IN  image.px[q][c] + ChannelTotal(image, S \ {q}, c)

\* v is the whole-number average of channel c over the positions S.
IsAverage(v, image, S, c) ==
    /\ v * Cardinality(S) <= ChannelTotal(image, S, c)
    /\ ChannelTotal(image, S, c) < (v + 1) * Cardinality(S)

\* C2: after interpolate_yellow_pixels, every marker pixel of the input that
\* has a qualifying neighbour holds, in each of its four channels, the
\* average of exactly its in-bounds, non-marker neighbours of the input;
\* and no position outside the image was read.
C2_NeighbourAverage ==
    ipc = "once" =>
        /\ \A p \in Positions(img.width, img.height) :
              (Marker(img.px[p]) /\ Qualifying(img, p) # {}) =>
                  \A c \in 1..4 :
                      IsAverage(result.px[p][c], img, Qualifying(img, p), c)
        /\ reads \subseteq Positions(img.width, img.height)

\* A marker pixel in a corner of a 3 x 2 image, one of whose three
\* neighbours is a marker too, was replaced by the average of the other two.
C2_Witness ==
    /\ ipc = "once"
    /\ img.width = 3 /\ img.height = 2
    /\ Marker(img.px[<<0, 0>>])
    /\ Cardinality(Around(img, <<0, 0>>)) = 3
    /\ Cardinality(Qualifying(img, <<0, 0>>)) = 2
    /\ result.px[<<0, 0>>] # img.px[<<0, 0>>]
    /\ \A c \in 1..4 :
          IsAverage(result.px[<<0, 0>>][c], img, Qualifying(img, <<0, 0>>), c)

\* C3: after interpolate_yellow_pixels, a marker pixel of the input none of
\* whose in-bounds neighbours qualifies is (0,0,0,0).
C3_IsolatedTransparent ==
    ipc = "once" =>
        \A p \in Positions(img.width, img.height) :
            (Marker(img.px[p]) /\ Qualifying(img, p) = {}) =>
                result.px[p] = <<0, 0, 0, 0>>

\* A marker pixel whose neighbours exist and are all markers went
\* transparent.
C3_Witness ==
    /\ ipc = "once"
    /\ \E p \in Positions(img.width, img.height) :
          /\ Marker(img.px[p])
          /\ Around(img, p) # {}
          /\ Qualifying(img, p) = {}
          /\ result.px[p] = <<0, 0, 0, 0>>

HasMarker(image) ==
    \E p \in Positions(image.width, image.height) : Marker(image.px[p])

----------------------------------------------------------------------------
(* Properties of clean_radar_image *)

FiveSteps == <<"header", "logo", "crop", "interpolate", "background">>

IsPrefix(a, b) == Len(a) <= Len(b) /\ a = SubSeq(b, 1, Len(a))

\* The header-text rectangle and the logo rectangle, as the claim gives them.
InHeaderRect(p) == p[1] < 158 /\ p[2] < 14

InLogoRect(p) == 392 <= p[1] /\ p[1] < 480 /\ p[2] < 46

\* The RGBA colour the raw frame shows at p.
FrameColour(f, p) ==
    LET c == IF p \in DOMAIN f.spots THEN f.spots[p] ELSE f.fill
    IN  IF f.mode = "RGB" THEN <<c[1], c[2], c[3], 255>> ELSE c

\* The frame with its two rectangles blanked, at p.
Blanked(f, p) ==
    IF InHeaderRect(p) \/ InLogoRect(p) THEN <<0, 0, 0, 0>>
    ELSE FrameColour(f, p)

\* C1: clean_radar_image runs its steps in the order header and logo
\* blanking, footer crop, marker interpolation, background transparency,
\* and saves only after all of them; once both rectangles are blanked the
\* copy is transparent exactly on x<158,y<14 and 392<=x<480,y<46 and is the
\* frame elsewhere, and the crop leaves the rows above the 50-row footer.
C1_StepOrder ==
    /\ IsPrefix(steps_done, FiveSteps)
    /\ (cleaned_file # NoImage => steps_done = FiveSteps)
    /\ (Len(steps_done) >= 2 =>
            \A p \in DOMAIN cleaned_img.px :
                cleaned_img.px[p] = Blanked(frame, p))
    /\ (Len(steps_done) = 3 =>
            /\ radar_data.height = frame.height - 50
            /\ \A p \in DOMAIN radar_data.px :
                  radar_data.px[p] = Blanked(frame, p))

\* A frame of the georeferencing script went through all five steps; its
\* spot inside the header's corner was blanked and the one next to it kept.
C1_Witness ==
    /\ script = "georeference"
    /\ cleaned_file # NoImage
    /\ steps_done = FiveSteps
    /\ frame.anchor = <<157, 13>>
    /\ frame.spots[<<157, 13>>] = Yellow
    /\ frame.spots[<<158, 13>>] = Echo
    /\ cleaned_img.px[<<157, 13>>] = <<0, 0, 0, 0>>
    /\ cleaned_img.px[<<158, 13>>] = Echo

RGB(pixel) == <<pixel[1], pixel[2], pixel[3]>>

BackgroundRGB == {<<0, 0, 0>>, <<127, 127, 127>>}

\* C4: the background step turns a pixel into (0,0,0,0) exactly when its
\* RGB is (0,0,0) or (127,127,127), and hands every other pixel on with
\* its four channels unchanged.
C4_BackgroundOnly ==
    [][steps_done' = Append(steps_done, "background") =>
          /\ DOMAIN radar_data'.px = DOMAIN radar_data.px
          /\ \A p \in DOMAIN radar_data.px :
                /\ (radar_data'.px[p] = <<0, 0, 0, 0>>)
                      <=> (RGB(radar_data.px[p]) \in BackgroundRGB)
                /\ (RGB(radar_data.px[p]) \notin BackgroundRGB =>
                        radar_data'.px[p] = radar_data.px[p])]_vars

\* After the background step an opaque grey spot is transparent, the
\* black fill is transparent, and the off-grey spot beside it is as it was.
C4_Witness ==
    /\ Len(steps_done) = 5
    /\ frame.anchor = <<157, 13>>
    /\ frame.mode = "RGBA"
    /\ frame.fill = Black
    /\ frame.spots[<<158, 13>>] = Grey127
    /\ frame.spots[<<157, 14>>] = NearGrey
    /\ radar_data.px[<<158, 13>>] = <<0, 0, 0, 0>>
    /\ radar_data.px[<<158, 12>>] = <<0, 0, 0, 0>>
    /\ radar_data.px[<<157, 14>>] = NearGrey

\* No pixel of the frame is background-coloured or marker-coloured.
NoBackgroundNoMarker(f) ==
    \A c \in {f.fill} \cup {f.spots[p] : p \in DOMAIN f.spots} :
        RGB(c) \notin BackgroundRGB /\ ~Marker(c)

\* C5: for a frame without background-coloured and marker-coloured pixels
\* the saved image is the frame with the two rectangles blanked and the
\* 50 footer rows cut off, pixel for pixel.
C5_CleanFramePassesThrough ==
    (cleaned_file # NoImage /\ NoBackgroundNoMarker(frame)) =>
        /\ cleaned_file.width = frame.width
        /\ cleaned_file.height = frame.height - 50
        /\ DOMAIN cleaned_file.px =
              {p \in Observed(frame) :
                  /\ 0 <= p[1] /\ p[1] < frame.width
                  /\ 0 <= p[2] /\ p[2] < frame.height - 50}
        /\ \A p \in DOMAIN cleaned_file.px :
              cleaned_file.px[p] = Blanked(frame, p)

\* A frame of precipitation colour with an off-grey and a skewed-yellow
\* spot across the logo's corner was cleaned and saved.
C5_Witness ==
    /\ cleaned_file # NoImage
    /\ NoBackgroundNoMarker(frame)
    /\ frame.anchor = <<391, 45>>
    /\ frame.spots[<<391, 45>>] = Skew30
    /\ frame.spots[<<392, 45>>] = NearGrey
    /\ cleaned_file.px[<<391, 45>>] = Skew30
    /\ cleaned_file.px[<<392, 45>>] = <<0, 0, 0, 0>>
    /\ cleaned_file.px[<<392, 46>>] = frame.fill

\* C7: from the crop on, and in the saved image, the working image is
\* W x (H - 50) for a W x H frame and each of its pixels has the four
\* channels of RGBA.
C7_CroppedDimensions ==
    /\ (Len(steps_done) >= 3 =>
            /\ radar_data.width = frame.width
            /\ radar_data.height = frame.height - 50
            /\ \A p \in DOMAIN radar_data.px : Len(radar_data.px[p]) = 4)
    /\ (cleaned_file # NoImage =>
            /\ cleaned_file.width = frame.width
            /\ cleaned_file.height = frame.height - 50
            /\ <<0, frame.height - 51>> \in DOMAIN cleaned_file.px
            /\ <<0, frame.height - 50>> \notin DOMAIN cleaned_file.px
            /\ \A p \in DOMAIN cleaned_file.px : Len(cleaned_file.px[p]) = 4)

\* A 400 x 300 frame decoded without alpha was saved as 400 x 250 after a
\* marker spot in its last data row was interpolated.
C7_Witness ==
    /\ cleaned_file # NoImage
    /\ frame.width = 400 /\ frame.height = 300
    /\ frame.mode = "RGB"
    /\ frame.anchor = <<200, 249>>
    /\ frame.spots[<<200, 249>>] = Yellow
    /\ cleaned_file.width = 400 /\ cleaned_file.height = 250
    /\ cleaned_file.px[<<200, 249>>] # Yellow

----------------------------------------------------------------------------
(* Properties of the warp *)

\* C8: the warp command asks for nearest-neighbour resampling and a
\* polynomial of order 3, every pixel of the warped raster whose alpha is
\* not 0 has the four channels of some pixel of the cleaned image, and
\* every pixel under which no source pixel lies has alpha 0.
C8_WarpKeepsColours ==
    gpc = "warped" =>
        /\ cmd2_for(script).r = "near"
        /\ cmd2_for(script).order = "3"
        /\ \A d \in DOMAIN georef_file.px :
              georef_file.px[d][4] # 0 =>
                  \E s \in DOMAIN cleaned_file.px :
                      georef_file.px[d] = cleaned_file.px[s]
        /\ \A d \in DOMAIN georef_file.px :
              warp_map[d] = Outside => georef_file.px[d][4] = 0

\* A two-coloured cleaned image was warped: one output pixel took the
\* second source pixel, the other lies outside the source.
C8_Witness ==
    /\ gpc = "warped"
    /\ cleaned_file.px[<<0, 0>>] = Echo
    /\ cleaned_file.px[<<1, 0>>] = NearGrey
    /\ warp_map[<<0, 0>>] = <<1, 0>>
    /\ warp_map[<<1, 0>>] = Outside
    /\ georef_file.px[<<0, 0>>] = NearGrey
    /\ georef_file.px[<<1, 0>>] = <<0, 0, 0, 0>>

----------------------------------------------------------------------------
(* Properties of the extent *)

\* The four corners of the radar's bounding box, transformed.
FourCorners ==
    LET b == radar_bounds(radar_ds)
    IN  {TransformPoint(transform, x, y) :
            x \in {b.min_x, b.max_x}, y \in {b.min_y, b.max_y}}

\* C10: the extent returned is the bounding box of the four transformed
\* corners of the radar's bounding box.
C10_BoxOfFourCorners ==
    (epc = "done" /\ extent # None) =>
        /\ \A c \in FourCorners :
              /\ extent.min_x <= c[1] /\ c[1] <= extent.max_x
              /\ extent.min_y <= c[2] /\ c[2] <= extent.max_y
        /\ \E c \in FourCorners : c[1] = extent.min_x
        /\ \E c \in FourCorners : c[1] = extent.max_x
        /\ \E c \in FourCorners : c[2] = extent.min_y
        /\ \E c \in FourCorners : c[2] = extent.max_y

\* C11: every extent returned is normalized, min_x <= max_x and
\* min_y <= max_y, whatever the geotransform and the transformation.
C11_Normalized ==
    (epc # "start" /\ extent # None) =>
        /\ extent.min_x <= extent.max_x
        /\ extent.min_y <= extent.max_y

\* An extent was returned under a transformation that swaps the axes and
\* sends the first corner to the right of and above the second.
C11_Witness ==
    /\ epc = "done"
    /\ extent # None
    /\ transform.a = 0 /\ transform.d = 0
    /\ LET b  == radar_bounds(radar_ds)
           c1 == TransformPoint(transform, b.min_x, b.min_y)
           c2 == TransformPoint(transform, b.max_x, b.max_y)
       IN  /\ c1[1] > c2[1] /\ c1[2] > c2[2]
           /\ extent.min_x = c2[1] /\ extent.max_x = c1[1]
           /\ extent.min_y = c2[2] /\ extent.max_y = c1[2]

\* C12: the window asked of the subset is the extent grown by 50000 m on
\* each of its four sides, in the order [min_x - 50000, max_y + 50000,
\* max_x + 50000, min_y - 50000], so it contains the extent.
C12_WindowWithMargin ==
    epc = "subset" =>
        /\ proj_win = <<extent.min_x - 50000, extent.max_y + 50000,
                        extent.max_x + 50000, extent.min_y - 50000>>
        /\ proj_win[1] < extent.min_x /\ extent.max_x < proj_win[3]
        /\ proj_win[4] < extent.min_y /\ extent.max_y < proj_win[2]
        /\ (subset_file # None => subset_file.window = proj_win)

\* A subset was written for an extent that is not a single point.
C12_Witness ==
    /\ epc = "subset"
    /\ subset_file # None
    /\ extent.min_x < extent.max_x /\ extent.min_y < extent.max_y
    /\ proj_win[3] - proj_win[1] = extent.max_x - extent.min_x + 100000
    /\ proj_win[2] - proj_win[4] = extent.max_y - extent.min_y + 100000

----------------------------------------------------------------------------
(* Properties of the band extraction *)

\* The calibration of band b as its metadata text gives it, or None.
CalibrationOf(b) == parse_calibration(metadata[cal_key(b)])

\* C13: every value of a band written before the reprojection is
\* offset + slope * v for the raw value v at its place, with the offset
\* and the slope of that band's calibration text.
C13_Calibrated ==
    \A b \in {5, 6} :
        (bpc # "idle" /\ calibrated[b] # None /\ CalibrationOf(b) # None) =>
            \A i \in DOMAIN raw[b] :
                calibrated[b][i] =
                    CalibrationOf(b).offset + CalibrationOf(b).slope * raw[b][i]

\* C14: when a requested band has no calibration text, the extraction
\* returns no successful result: it does not return the other band's file.
C14_MissingCalibrationFails ==
    (bpc = "returned" /\ \E b \in {5, 6} : metadata[cal_key(b)] = <<>>) =>
        output_files = <<>>

----------------------------------------------------------------------------
(* Properties of the composite *)

\* The figure was saved.
Saved == cpc # <<>> /\ cpc[Len(cpc)] = "save"

\* The place of a layer in the order satellite band, vector polygons,
\* radar raster, vector points and labels.
LayerRank(layer) ==
    CASE layer = "satellite" -> 1
      [] layer = "polygons" -> 2
      [] layer = "radar" -> 3
      [] layer \in {"points", "labels"} -> 4

\* No artist of the sequence comes before one that must lie beneath it.
InZOrder(artists) ==
    \A i, j \in DOMAIN artists :
        i < j => LayerRank(artists[i].layer) <= LayerRank(artists[j].layer)

\* C15: the layers of a saved composite follow the order satellite band,
\* vector polygons, radar raster, vector points and labels, in the order of
\* the plotting calls or in the order in which the artists are rendered.
C15_FixedZOrder == Saved => (InZOrder(drawn) \/ InZOrder(rendered(drawn)))

\* The box b is the province bounds grown by one margin on its four sides.
ProvincesPlusMargin(b) ==
    LET m == prov_bounds[1] - b.left
    IN  /\ m > 0
        /\ b.right = prov_bounds[3] + m
        /\ b.bottom = prov_bounds[2] - m
        /\ b.top = prov_bounds[4] + m

\* C16: the limits of a saved composite are the province bounds plus a
\* margin when the provinces are supplied, and they are the radar's bounds
\* exactly when no provinces are supplied.
C16_CompositeExtent ==
    Saved =>
        /\ "provinces" \in vectors => ProvincesPlusMargin(view)
        /\ (view = radar_info) <=> ("provinces" \notin vectors)

\* C17: a composite of the radar alone, saved by 8_, has the radar's
\* bounds; where the radar's alpha is 0 the output's alpha is 0, and
\* everywhere else the output pixel is the radar's pixel.
C17_RadarOnly ==
    (Saved /\ script = "enhanced" /\ water_vapor.bands = {} /\ vectors = {}) =>
        /\ view = radar_info
        /\ \A p \in DOMAIN radar_layer.px :
              IF radar_layer.px[p][4] = 0
              THEN out_px[p][4] = 0
              ELSE out_px[p] = radar_layer.px[p]

----------------------------------------------------------------------------
(* Properties of the pipeline for one file and of the main loops *)

\* C18: once a stage has failed for a file, that stage is the last one run
\* for it and the file is not reported as a success; and no stage is run
\* twice for a file.
C18_StageErrorsTerminal ==
    /\ failed # {} =>
           /\ stages_run[Len(stages_run)] \in failed
           /\ returned # "success"
    /\ \A i, j \in DOMAIN stages_run :
           stages_run[i] = stages_run[j] => i = j

\* C19: when a main loop has ended, it has started every file of its list.
C19_EveryFrameAttempted ==
    kpc \in {"done", "aborted"} => attempted = [i \in 1..Len(batch) |-> i]

\* C20: every intermediate file on disk belongs to the file whose run has
\* not returned yet.
C20_IntermediatesReleased ==
    \A a \in artefacts : a[1] = frame_no /\ returned = "running"

----------------------------------------------------------------------------
(* Further properties of interpolate_yellow_pixels *)

\* C24: for every input image, the image interpolate_yellow_pixels returns
\* holds no pixel of marker colour (r>80, g>80, b<50, |r-g|<30).
C24_NoMarkerInOutput == ipc \in {"once", "twice"} => ~HasMarker(result)

\* C22: interpolate_yellow_pixels never changes the image it is given and
\* writes only to a copy that is another object; when it returns, every
\* pixel of the result is what the input image alone determines: the
\* input's pixel where that is no marker, else the average of the input's
\* non-marker neighbours, else (0,0,0,0), whatever was rewritten before it.
C22_InputNeverMutated ==
    [][spc # "idle" =>
          /\ objects'["arg"] = objects["arg"]
          /\ result_obj' # "arg"
          /\ spc' = "returned" =>
                \A p \in Positions(objects["arg"].width, objects["arg"].height) :
                    objects'[result_obj'].px[p] =
                        IF ~Marker(objects["arg"].px[p]) THEN objects["arg"].px[p]
                        ELSE IF Qualifying(objects["arg"], p) = {} THEN TRANSPARENT
                        ELSE [c \in 1..4 |->
                                ChannelTotal(objects["arg"],
                                             Qualifying(objects["arg"], p), c)
                                    \div Cardinality(Qualifying(objects["arg"], p))]
     ]_vars

\* The call returned for an image with two adjacent marker pixels that have
\* a non-marker neighbour: the input still holds both markers, and the
\* result, another object, differs from it.
C22_Witness ==
    /\ spc = "returned"
    /\ result_obj = "copy"
    /\ objects["copy"] # objects["arg"]
    /\ \E p, q \in Positions(objects["arg"].width, objects["arg"].height) :
          /\ q \in Around(objects["arg"], p)
          /\ Marker(objects["arg"].px[p])
          /\ Marker(objects["arg"].px[q])
          /\ Qualifying(objects["arg"], p) # {}
          /\ Qualifying(objects["arg"], q) # {}

----------------------------------------------------------------------------
(* The two copies of the radar code *)

\* What clean_radar_image of script s saves for frame f, at the observed
\* positions.
Cleaned(s, f) == Sample(work_image(s, f, steps_of(s)), f)

\* C30: for every input frame the image clean_radar_image saves is the one
\* 4_georeference.py's copy (interpolate_yellow=True) makes and the one the
\* listener's copy makes; and the two georeferencing paths pass the same 39
\* ground-control points, the same polynomial order and the same
\* resampling to gdalwarp.
C30_ImplementationsEquivalent ==
    /\ cleaned_file # NoImage =>
          /\ cleaned_file = Cleaned("georeference", frame)
          /\ cleaned_file = Cleaned("listener", frame)
    /\ Len(qgis_gcps) = 39
    /\ qgis_gcps_listener = qgis_gcps
    /\ gcp_params_listener = gcp_params
    /\ cmd2_listener.order = cmd2.order
    /\ cmd2_listener.r = cmd2.r

\* The listener saved a 480-wide frame of echo colour with a marker spot:
\* the logo's last column is cleared and the marker is gone.
C30_Witness ==
    /\ script = "listener"
    /\ cleaned_file # NoImage
    /\ frame.width = 480
    /\ frame.fill = Echo
    /\ frame.spots[frame.anchor] = Yellow
    /\ cleaned_file.px[<<479, 0>>] = TRANSPARENT
    /\ cleaned_file.px[frame.anchor] # Yellow

----------------------------------------------------------------------------
(* Further properties of the composite *)

\* C23: in the saved composite every raster layer was drawn at its own
\* bounds: the water vapour layer over the bounds of the water vapour
\* raster, the radar layer over the bounds of the radar raster.
C23_LayersAtOwnExtent ==
    Saved =>
        \A pl \in placed :
            /\ pl.layer = "satellite" => pl.extent = wv_bounds
            /\ pl.layer = "radar" =>
                  pl.extent = [left |-> radar_info.left, right |-> radar_info.right,
                               bottom |-> radar_info.bottom, top |-> radar_info.top]

----------------------------------------------------------------------------
(* Properties of the listener's lock *)

\* C25: at no time are two listener processes both past
\* check_and_create_lock with True and alive.
C25_SingleInstance ==
    \A i, j \in Instances :
        (i \in acquired /\ j \in acquired /\ Alive(i) /\ Alive(j)) => i = j

\* The steps of check_and_create_lock that leave the lock file alone.
Checking == {"exists", "read"}

\* C26: a process that finds the lock file naming a live PID leaves main
\* with status 1 from the read, and no step it took up to there changed the
\* lock file; a process that calls remove_lock acquired the lock before;
\* and a process that acquired the lock and whose main has ended, by
\* return or by an exception, has called remove_lock.
C26_LockOwnerCleansUp ==
    [][\A i \in Instances :
          /\ (lpc[i] \in Checking /\ lpc'[i] # lpc[i]) => lock_file' = lock_file
          /\ (lpc[i] = "read" /\ lock_file.state = "json" /\ lock_file.pid # 0
                 /\ pid_exists(lock_file.pid) /\ lpc'[i] # lpc[i]) =>
                lpc'[i] = "returned_1" /\ i \notin acquired'
          /\ (lpc'[i] = "returned_1" /\ lpc[i] # "returned_1") =>
                lpc[i] \in {"start", "read"}
          /\ i \in remove_calls' => i \in acquired'
          /\ (i \in acquired' /\ lpc'[i] \in {"stopped", "crashed", "returned_1"}) =>
                i \in remove_calls'
     ]_vars

\* One process found the other's lock, whose owner was alive, and left with
\* status 1; the owner later left its loop, called remove_lock and stopped.
C26_Witness ==
    /\ lpc[1] = "stopped" /\ 1 \in acquired /\ 1 \in remove_calls
    /\ lpc[2] = "returned_1"
    /\ lock_data[2] = [got |-> "data", pid |-> 1]
    /\ 2 \notin acquired /\ 2 \notin remove_calls
    /\ lock_file = Absent

\* What the process read is a stale or unreadable lock: a pid that is no
\* process, no pid, or no JSON.
StaleOrUnreadable(i) ==
    \/ lock_data[i].got = "error"
    \/ lock_data[i].got = "data"
          /\ (lock_data[i].pid = 0 \/ ~pid_exists(lock_data[i].pid))

\* C27: a process that starts alone and reads a lock file that names a PID
\* that is no process, has no pid, or is no JSON, removes it, writes a lock
\* with its own PID and gets True: once it is through check_and_create_lock
\* it has acquired the lock, and while it serves the file names its PID.
C27_StaleLockReplaced ==
    \A i, j \in Instances :
        (/\ i # j /\ lpc[j] = "start"
         /\ StaleOrUnreadable(i)
         /\ lpc[i] \notin {"stale_unlink", "except_unlink", "create", "dump"}) =>
            /\ i \in acquired
            /\ lpc[i] \in LoopStates => lock_file = Json(i)

\* Process 1, alone, read a lock naming PID 9, which is no process, and now
\* serves under a lock naming itself.
C27_Witness ==
    /\ lpc[2] = "start"
    /\ lock_data[1] = [got |-> "data", pid |-> 9]
    /\ lpc[1] = "sleep"
    /\ 1 \in acquired
    /\ lock_file = Json(1)

----------------------------------------------------------------------------
(* Properties of the listener's poll cycles *)

\* The frames of a list.
Listed(list) == {list[k] : k \in DOMAIN list}

\* What holds of every call of get_unprocessed_files and of every frame the
\* loop takes: the list is exactly the current date's radar files that have
\* no enhanced image, in order and without repetition; it holds no frame
\* for which process_radar_file returned True; and no such frame is
\* processed.
ReturnsExactlyUnprocessed ==
    /\ (qpc = "poll" /\ qpc' = "loop") =>
          /\ Listed(unprocessed') =
                {f \in radar_dir : f[1] = today /\ f \notin enhanced_dir}
          /\ Len(unprocessed') = Cardinality(Listed(unprocessed'))
          /\ \A f \in Listed(unprocessed') : results[f] # "true"
    /\ (qpc = "loop" /\ file_no' = file_no + 1) =>
          results[unprocessed[file_no + 1]] # "true"

----------------------------------------------------------------------------
(* Properties of the radar listener *)

\* C29: whenever the main loop is about to call download_radar after an
\* earlier call, whatever that call returned, it has just waited a positive
\* time.
C29_PositiveWaitBetweenDownloads ==
    (rpc = "download" /\ calls > 0) => wait_time > 0

----------------------------------------------------------------------------
(* Properties of instances run side by side *)

\* C21: two instances on different frames never read or write the same
\* intermediate file, and when both are through, each output file holds
\* the band of its own frame, as it does when the instance runs alone.
C21_DisjointFramesIndependent ==
    /\ \A v, w \in Workers : v # w => touched[v] \cap touched[w] = {}
    /\ (\A w \in Workers : wpc[w].at = "done") =>
          \A w \in Workers : \A b \in {5, 6} : band_out[<<w, b>>] = w

====
